---- MODULE Spec2Model ----
(***************************************************************************)
(* Model of the BALAUR resource store: the ResourceStore facade, the       *)
(* StorageFactory, the MemoryStore and DenoKvStore providers and the part  *)
(* of Resource that the providers serialize.                               *)
(*                                                                         *)
(* JavaScript strings are sequences of one-character strings, so that key  *)
(* concatenation, startsWith and split(":") are computed, not assumed.     *)
(* JavaScript objects used as string-keyed maps are functions with string  *)
(* domains.  A Map is a sequence of <<key, value>> entries in insertion    *)
(* order.  Objects that have identity (providers) live in a heap keyed by  *)
(* an object id.                                                           *)
(***************************************************************************)
EXTENDS Integers, Sequences, FiniteSets, TLC

VARIABLES
  storageConfig,   \* ResourceStore.storageConfig
  isInitialized,   \* ResourceStore.isInitialized
  storage,         \* ResourceStore.storage: id of the provider, 0 while unassigned
  nextId,          \* id the next provider object will get
  heap,            \* the provider objects that are still referenced, by id
  kv,              \* the durable Deno KV medium: KvKey -> stored value
  last,            \* the last facade call: its arguments and its outcome
  objs,            \* the mapping objects ({...}) that are still referenced, by id
  robj,            \* a Resource instance: its fields; _properties, _links, _embedded as ids
  held,            \* the mapping a caller of the Resource got back and still holds
  rlast,           \* the last call on the Resource instance
  pair,            \* a memory-backed and a Deno-KV-backed store given the same calls
  procs            \* the concurrent calls in flight on the store: position and locals

storeVars == <<storageConfig, isInitialized, storage, nextId, heap, kv, last>>

resourceVars == <<objs, robj, held, rlast>>

vars == <<storageConfig, isInitialized, storage, nextId, heap, kv, last,
          objs, robj, held, rlast, pair, procs>>

(***************************************************************************)
(* Bounds                                                                  *)
(***************************************************************************)
\* Providers a ResourceStore may instantiate over its life (close/re-open cycles).
MaxProviders == 2

(***************************************************************************)
(* Strings                                                                 *)
(***************************************************************************)
Colon == <<":">>
EmptyString == <<>>

StartsWith(s, p) == Len(p) <= Len(s) /\ SubSeq(s, 1, Len(p)) = p

\* String.prototype.split(":")
RECURSIVE Split(_)
Split(s) ==
  IF \A i \in 1..Len(s) : s[i] # ":"
  THEN <<s>>
  ELSE LET i == CHOOSE n \in 1..Len(s) : s[n] = ":" /\ \A j \in 1..(n - 1) : s[j] # ":"
       IN  <<SubSeq(s, 1, i - 1)>> \o Split(SubSeq(s, i + 1, Len(s)))

(***************************************************************************)
(* Values                                                                  *)
(***************************************************************************)
\* null / undefined, as a record so that it compares with resources
Null == [null |-> TRUE]
Undefined == [undefined |-> TRUE]
EmptyObject == [k \in {} |-> 0]

NoError == "none"
ErrCustomRequired == "Custom storage provider required for type 'custom'"
ErrUnsupported == "Unsupported storage type"
ErrOpenFailed == "Failed to open Deno KV"
ErrNotInitialized == "Deno KV store not initialized. Call init() first."
ErrInvalidData == "Invalid resource data"
ErrCreateFailed == "Failed to create resource at key"
ErrUndefinedStorage == "TypeError: this.storage is undefined"

\* The resource types and ids the callers use.  Both are arbitrary non-empty
\* strings, so some of them contain the separator.
Types == { <<"a">>, <<"a", ":", "b">> }
Ids == { <<"x">>, <<"b", ":", "x">> }
Namespaces == { EmptyString, <<"n">> }

Active == <<"a", "c", "t", "i", "v", "e">>

\* new Resource({type, id, properties, links, state})
Resource(type, id, properties, links, state) ==
  [type |-> type, id |-> id,
   properties |-> IF properties = Undefined THEN EmptyObject ELSE properties,
   links |-> IF links = Undefined THEN EmptyObject ELSE links,
   embedded |-> EmptyObject,
   state |-> state]

\* The resources the callers pass in: two variants of every (type, id).
Resources ==
  { Resource(t, i, [p |-> 1], Undefined, Undefined) : t \in Types, i \in Ids }
  \cup
  { Resource(t, i, [p |-> 2], [self |-> [href |-> "/r"]], Active) : t \in Types, i \in Ids }

\* Resource.toJSON
toJSON(r) ==
  ("type" :> r.type) @@ ("id" :> r.id) @@ ("properties" :> r.properties)
  @@ ("_links" :> r.links)
  @@ (IF DOMAIN r.embedded # {} THEN ("_embedded" :> r.embedded) ELSE EmptyObject)
  @@ (IF r.state # Undefined /\ r.state # EmptyString THEN ("state" :> r.state) ELSE EmptyObject)

Field(data, name) == IF name \in DOMAIN data THEN data[name] ELSE Undefined

\* DenoKvStore.serializeResource
serializeResource(r) == toJSON(r)

\* Reconstruction that leaves the stored links out
deserializeResource_NoLinks(data) ==
  Resource(Field(data, "type"), Field(data, "id"),
           Field(data, "properties"), Undefined, Field(data, "state"))

\* DenoKvStore.deserializeResource, for a stored object.  The items of
\* _embedded are reconstructed by the same function.
RECURSIVE deserializeResource(_)
deserializeResource(data) ==
  LET base     == Resource(Field(data, "type"), Field(data, "id"),
                           Field(data, "properties"), Undefined, Field(data, "state"))
      links    == Field(data, "_links")
      embedded == Field(data, "_embedded")
      linked   == IF links = Undefined
                  THEN base
                  ELSE [base EXCEPT !.links = [rel \in DOMAIN links |-> links[rel]]]
  IN  IF embedded = Undefined
      THEN linked
      ELSE [linked EXCEPT !.embedded =
              [rel \in { r \in DOMAIN embedded : Len(embedded[r]) > 0 } |->
                 [i \in 1..Len(embedded[rel]) |-> deserializeResource(embedded[rel][i])]]]

\* What the structured clone of Deno.Kv.set keeps of a Resource instance: a
\* plain object of the instance's own fields (_type, _id, ...), without the
\* class and its toJSON
RECURSIVE OwnFields(_)
OwnFields(r) ==
  ("_type" :> r.type) @@ ("_id" :> r.id) @@ ("_properties" :> r.properties)
  @@ ("_links" :> r.links)
  @@ ("_embedded" :> [rel \in DOMAIN r.embedded |->
                        [i \in 1..Len(r.embedded[rel]) |-> OwnFields(r.embedded[rel][i])]])
  @@ ("_state" :> r.state)

\* The value Deno.Kv.set keeps for the record serializeResource hands it: the
\* record's _embedded arrays hold the Resource instances themselves
StructuredClone(value) ==
  IF "_embedded" \in DOMAIN value
  THEN [value EXCEPT !["_embedded"] =
          [rel \in DOMAIN @ |-> [i \in 1..Len(@[rel]) |-> OwnFields(@[rel][i])]]]
  ELSE value

(***************************************************************************)
(* Outcome of a call: the state it leaves, the error it raised (NoError if *)
(* none) and what it returned.                                             *)
(***************************************************************************)
Outcome(st, err, res, list, deleted) ==
  [st |-> st, err |-> err, res |-> res, list |-> list, deleted |-> deleted]

Returns(st) == Outcome(st, NoError, Null, <<>>, FALSE)
Throws(st, err) == Outcome(st, err, Null, <<>>, FALSE)

(***************************************************************************)
(* Map<string, Resource>: entries in insertion order                       *)
(***************************************************************************)
MapHas(m, k) == \E i \in 1..Len(m) : m[i][1] = k

\* Map.get: the value or undefined
MapGet(m, k) ==
  IF MapHas(m, k) THEN m[CHOOSE i \in 1..Len(m) : m[i][1] = k][2] ELSE Undefined

\* Map.set: an existing key keeps its place, a new key goes last
MapSet(m, k, v) ==
  IF MapHas(m, k)
  THEN [i \in 1..Len(m) |-> IF m[i][1] = k THEN <<k, v>> ELSE m[i]]
  ELSE Append(m, <<k, v>>)

MapKeep(m, k) == LET Other(e) == e[1] # k IN SelectSeq(m, Other)

\* Map.delete
MapDelete(m, k) == MapKeep(m, k)

(***************************************************************************)
(* MemoryStore                                                             *)
(***************************************************************************)
\* new MemoryStore(options)
MemoryStore(options) ==
  [cls |-> "MemoryStore", namespace |-> options.namespace, store |-> <<>>, isOpen |-> TRUE]

\* MemoryStore.namespaceKey
namespaceKey(this, key) ==
  IF this.namespace # EmptyString THEN this.namespace \o Colon \o key ELSE key

\* create that forgets the namespace
MemoryStore_create_RawKey(s, pid, key, value) ==
  LET this == s.heap[pid]
  IN  Returns([s EXCEPT !.heap[pid].store = MapSet(this.store, key, value)])

\* create that removes the key and inserts it again, at the end
MemoryStore_create_Reinsert(s, pid, key, value) ==
  LET this == s.heap[pid]
      k    == namespaceKey(this, key)
  IN  Returns([s EXCEPT !.heap[pid].store = Append(MapDelete(this.store, k), <<k, value>>)])

MemoryStore_create(s, pid, key, value) ==
  LET this == s.heap[pid]
  IN  Returns([s EXCEPT !.heap[pid].store = MapSet(this.store, namespaceKey(this, key), value)])

\* get that hands out what Map.get answered, undefined included
MemoryStore_get_NoNull(s, pid, key) ==
  LET this == s.heap[pid]
  IN  Outcome(s, NoError, MapGet(this.store, namespaceKey(this, key)), <<>>, FALSE)

MemoryStore_get(s, pid, key) ==
  LET this  == s.heap[pid]
      found == MapGet(this.store, namespaceKey(this, key))
  IN  Outcome(s, NoError, IF found = Undefined THEN Null ELSE found, <<>>, FALSE)

MemoryStore_list(s, pid, prefix) ==
  LET this     == s.heap[pid]
      nsPrefix == namespaceKey(this, prefix)
      Match(e) == StartsWith(e[1], nsPrefix)
      entries  == SelectSeq(this.store, Match)
  IN  Outcome(s, NoError, Null, [i \in 1..Len(entries) |-> entries[i][2]], FALSE)

\* update that pushes an entry instead of setting the key
MemoryStore_update_Push(s, pid, key, value) ==
  LET this == s.heap[pid]
  IN  Returns([s EXCEPT !.heap[pid].store = Append(this.store, <<namespaceKey(this, key), value>>)])

\* update that merges the new properties and links into the stored ones
MemoryStore_update_Merge(s, pid, key, value) ==
  LET this   == s.heap[pid]
      k      == namespaceKey(this, key)
      old    == MapGet(this.store, k)
      Over(a, b) == [x \in DOMAIN a \cup DOMAIN b |-> IF x \in DOMAIN a THEN a[x] ELSE b[x]]
      merged == IF MapHas(this.store, k)
                THEN [value EXCEPT !.properties = Over(value.properties, old.properties),
                                   !.links = Over(value.links, old.links)]
                ELSE value
  IN  Returns([s EXCEPT !.heap[pid].store = MapSet(this.store, k, merged)])

MemoryStore_update(s, pid, key, value) ==
  LET this == s.heap[pid]
  IN  Returns([s EXCEPT !.heap[pid].store = MapSet(this.store, namespaceKey(this, key), value)])

\* delete that reports success whatever the Map answered
MemoryStore_delete_AlwaysTrue(s, pid, key) ==
  LET this == s.heap[pid]
      k    == namespaceKey(this, key)
  IN  Outcome([s EXCEPT !.heap[pid].store = MapDelete(this.store, k)],
              NoError, Null, <<>>, TRUE)

\* delete that also removes the entries of the resources the value embeds
MemoryStore_delete_Cascade(s, pid, key) ==
  LET this     == s.heap[pid]
      k        == namespaceKey(this, key)
      parent   == MapGet(this.store, k)
      children == IF parent = Undefined THEN {}
                  ELSE UNION { { parent.embedded[rel][n] : n \in 1..Len(parent.embedded[rel]) } :
                               rel \in DOMAIN parent.embedded }
      gone     == {k} \cup { namespaceKey(this, c.type \o Colon \o c.id) : c \in children }
      Kept(e)  == e[1] \notin gone
  IN  Outcome([s EXCEPT !.heap[pid].store = SelectSeq(this.store, Kept)],
              NoError, Null, <<>>, MapHas(this.store, k))

MemoryStore_delete(s, pid, key) ==
  LET this == s.heap[pid]
      k    == namespaceKey(this, key)
  IN  Outcome([s EXCEPT !.heap[pid].store = MapDelete(this.store, k)],
              NoError, Null, <<>>, MapHas(this.store, k))

MemoryStore_close(s, pid) == Returns(s)

(***************************************************************************)
(* The Deno KV medium, as DenoKvStore uses it.  A key is a sequence of     *)
(* string parts; keys are ordered part by part; a prefix selector selects  *)
(* the keys that extend the prefix by at least one whole part.             *)
(***************************************************************************)
CharCode(c) ==
  CASE c = ":" -> 58 [] c = "a" -> 97 [] c = "b" -> 98 [] c = "n" -> 110 [] c = "x" -> 120

RECURSIVE StrLess(_, _)
StrLess(a, b) ==
  IF b = <<>> THEN FALSE
  ELSE IF a = <<>> THEN TRUE
  ELSE IF a[1] # b[1] THEN CharCode(a[1]) < CharCode(b[1])
  ELSE StrLess(Tail(a), Tail(b))

RECURSIVE KeyLess(_, _)
KeyLess(k1, k2) ==
  IF k2 = <<>> THEN FALSE
  ELSE IF k1 = <<>> THEN TRUE
  ELSE IF k1[1] # k2[1] THEN StrLess(k1[1], k2[1])
  ELSE KeyLess(Tail(k1), Tail(k2))

RECURSIVE SortKeys(_)
SortKeys(S) ==
  IF S = {} THEN <<>>
  ELSE LET m == CHOOSE k \in S : \A o \in S \ {k} : KeyLess(k, o)
       IN  <<m>> \o SortKeys(S \ {m})

\* Deno.Kv.set
KvSet(m, key, value) == [k \in DOMAIN m \cup {key} |-> IF k = key THEN value ELSE m[k]]

\* Deno.Kv.get: the entry's value, null when there is no entry
KvGet(m, key) == IF key \in DOMAIN m THEN m[key] ELSE Null

\* Deno.Kv.delete
KvDelete(m, key) == [k \in DOMAIN m \ {key} |-> m[k]]

\* Deno.Kv.list({ prefix }): the entries under the prefix, in key order
KvList(m, prefix) ==
  LET Under(k) == Len(k) > Len(prefix) /\ SubSeq(k, 1, Len(prefix)) = prefix
      keys     == SortKeys({k \in DOMAIN m : Under(k)})
  IN  [i \in 1..Len(keys) |-> m[keys[i]]]

(***************************************************************************)
(* DenoKvStore                                                             *)
(***************************************************************************)
\* new DenoKvStore(options)
DenoKvStore(options) ==
  [cls |-> "DenoKvStore", namespace |-> options.namespace, store |-> <<>>, isOpen |-> FALSE]

\* DenoKvStore.init; openOk: whether Deno.openKv succeeds
DenoKvStore_init(s, pid, openOk) ==
  IF s.heap[pid].isOpen THEN Returns(s)
  ELSE IF openOk THEN Returns([s EXCEPT !.heap[pid].isOpen = TRUE])
  ELSE Throws(s, ErrOpenFailed)

\* DenoKvStore.buildKey
buildKey(this, key) ==
  LET parts == Split(key)
  IN  IF this.namespace # EmptyString THEN <<this.namespace>> \o parts ELSE parts

\* DenoKvStore.ensureOpen
ensureOpen(this) == IF ~this.isOpen THEN ErrNotInitialized ELSE NoError

\* create with strict-create semantics: an existing key is an error
DenoKvStore_create_Strict(s, pid, key, value) ==
  LET this == s.heap[pid]
  IN  IF ensureOpen(this) # NoError THEN Throws(s, ensureOpen(this))
      ELSE IF buildKey(this, key) \in DOMAIN s.kv THEN Throws(s, ErrCreateFailed)
      ELSE Returns([s EXCEPT !.kv = KvSet(s.kv, buildKey(this, key), StructuredClone(serializeResource(value)))])

DenoKvStore_create(s, pid, key, value) ==
  LET this == s.heap[pid]
  IN  IF ensureOpen(this) # NoError THEN Throws(s, ensureOpen(this))
      ELSE Returns([s EXCEPT !.kv = KvSet(s.kv, buildKey(this, key), StructuredClone(serializeResource(value)))])

\* A stored value that is no object: a number, kept as [primitive |-> n]
Primitive(n) == [primitive |-> n]

\* !result.value in DenoKvStore.get: no entry, or a falsy stored value
Falsy(value) == value = Null \/ value = Primitive(0)

\* typeof data === "object" && data !== null in deserializeResource
IsObject(value) == "primitive" \notin DOMAIN value

DenoKvStore_get(s, pid, key) ==
  LET this  == s.heap[pid]
      value == KvGet(s.kv, buildKey(this, key))
  IN  IF ensureOpen(this) # NoError THEN Throws(s, ensureOpen(this))
      ELSE IF Falsy(value) THEN Outcome(s, NoError, Null, <<>>, FALSE)
      ELSE IF ~IsObject(value) THEN Throws(s, ErrInvalidData)
      ELSE Outcome(s, NoError, deserializeResource(value), <<>>, FALSE)

DenoKvStore_list(s, pid, prefix) ==
  LET this    == s.heap[pid]
      entries == KvList(s.kv, buildKey(this, prefix))
  IN  IF ensureOpen(this) # NoError THEN Throws(s, ensureOpen(this))
      ELSE IF \E i \in 1..Len(entries) : ~IsObject(entries[i])
      THEN Throws(s, ErrInvalidData)
      ELSE Outcome(s, NoError, Null,
                   [i \in 1..Len(entries) |-> deserializeResource(entries[i])], FALSE)

DenoKvStore_update(s, pid, key, value) ==
  LET this == s.heap[pid]
  IN  IF ensureOpen(this) # NoError THEN Throws(s, ensureOpen(this))
      ELSE Returns([s EXCEPT !.kv = KvSet(s.kv, buildKey(this, key), StructuredClone(serializeResource(value)))])

\* delete that skips ensureOpen
DenoKvStore_delete_NoEnsure(s, pid, key) ==
  LET this    == s.heap[pid]
      deleted == [s EXCEPT !.kv = KvDelete(s.kv, buildKey(this, key))]
  IN  Outcome(deleted, NoError, Null, <<>>, TRUE)

\* delete that answers whether the key had an entry
DenoKvStore_delete_Existed(s, pid, key) ==
  LET this    == s.heap[pid]
      deleted == [s EXCEPT !.kv = KvDelete(s.kv, buildKey(this, key))]
  IN  IF ensureOpen(this) # NoError THEN Throws(s, ensureOpen(this))
      ELSE Outcome(deleted, NoError, Null, <<>>, buildKey(this, key) \in DOMAIN s.kv)

DenoKvStore_delete(s, pid, key) ==
  LET this    == s.heap[pid]
      deleted == [s EXCEPT !.kv = KvDelete(s.kv, buildKey(this, key))]
      exists  == DenoKvStore_get(deleted, pid, key)
  IN  IF ensureOpen(this) # NoError THEN Throws(s, ensureOpen(this))
      ELSE Outcome(deleted, NoError, Null, <<>>, exists.res = Null)

DenoKvStore_close(s, pid) ==
  IF s.heap[pid].isOpen THEN Returns([s EXCEPT !.heap[pid].isOpen = FALSE]) ELSE Returns(s)

(***************************************************************************)
(* StorageProvider<Resource>: the call goes to the class of the object     *)
(***************************************************************************)
IsMemory(s, pid) == s.heap[pid].cls = "MemoryStore"

\* One more provider operation has been invoked on behalf of the running call
Invoked(out) == [out EXCEPT !.st.calls = @ + 1]

Provider_create(s, pid, key, value) ==
  Invoked(IF IsMemory(s, pid) THEN MemoryStore_create(s, pid, key, value)
          ELSE DenoKvStore_create(s, pid, key, value))

Provider_get(s, pid, key) ==
  Invoked(IF IsMemory(s, pid) THEN MemoryStore_get(s, pid, key)
          ELSE DenoKvStore_get(s, pid, key))

Provider_list(s, pid, prefix) ==
  Invoked(IF IsMemory(s, pid) THEN MemoryStore_list(s, pid, prefix)
          ELSE DenoKvStore_list(s, pid, prefix))

Provider_update(s, pid, key, value) ==
  Invoked(IF IsMemory(s, pid) THEN MemoryStore_update(s, pid, key, value)
          ELSE DenoKvStore_update(s, pid, key, value))

Provider_delete(s, pid, key) ==
  Invoked(IF IsMemory(s, pid) THEN MemoryStore_delete(s, pid, key)
          ELSE DenoKvStore_delete(s, pid, key))

Provider_close(s, pid) ==
  Invoked(IF IsMemory(s, pid) THEN MemoryStore_close(s, pid)
          ELSE DenoKvStore_close(s, pid))

(***************************************************************************)
(* StorageFactory                                                          *)
(***************************************************************************)
Created(st, err, pid) == [st |-> st, err |-> err, pid |-> pid]

\* The state with a new object on the heap under the next id
Allocate(s, object) ==
  [s EXCEPT !.heap = (s.nextId :> object) @@ s.heap, !.nextId = s.nextId + 1]

\* StorageFactory.createStorage; openOk: whether Deno.openKv succeeds
StorageFactory_createStorage(s, config, openOk) ==
  CASE config.type = "memory" ->
         Created(Allocate(s, MemoryStore(config)), NoError, s.nextId)
    [] config.type = "deno-kv" ->
         LET kvStore == s.nextId
             opened  == DenoKvStore_init(Allocate(s, DenoKvStore(config)), kvStore, openOk)
         IN  IF opened.err # NoError
             THEN Created(s, opened.err, 0)
             ELSE Created(opened.st, NoError, kvStore)
    [] config.type = "custom" ->
         IF config.customProvider = 0
         THEN Created(s, ErrCustomRequired, 0)
         ELSE Created(s, NoError, config.customProvider)
    [] OTHER -> Created(s, ErrUnsupported, 0)

(***************************************************************************)
(* ResourceStore                                                           *)
(***************************************************************************)
\* The objects still referenced once the store holds provider pid: the
\* provider itself and the provider the configuration names.
Referenced(s, pid) ==
  [o \in DOMAIN s.heap \cap {pid, s.storageConfig.customProvider} |-> s.heap[o]]

\* initialize without the early return of an initialized store
initialize_NoGuard(s, openOk) ==
  LET created == StorageFactory_createStorage(s, s.storageConfig, openOk)
  IN  IF created.err # NoError
      THEN Throws(s, created.err)
      ELSE Returns([created.st EXCEPT !.storage = created.pid,
                                      !.isInitialized = TRUE,
                                      !.heap = Referenced(created.st, created.pid)])

\* initialize that sets the flag before it awaits the factory
initialize_FlagFirst(s, openOk) ==
  IF s.isInitialized THEN Returns(s)
  ELSE LET created == StorageFactory_createStorage(s, s.storageConfig, openOk)
       IN  IF created.err # NoError
           THEN Throws([s EXCEPT !.isInitialized = TRUE], created.err)
           ELSE Returns([created.st EXCEPT !.storage = created.pid,
                                           !.isInitialized = TRUE,
                                           !.heap = Referenced(created.st, created.pid)])

\* ResourceStore.initialize
initialize(s, openOk) ==
  IF s.isInitialized THEN Returns(s)
  ELSE LET created == StorageFactory_createStorage(s, s.storageConfig, openOk)
       IN  IF created.err # NoError
           THEN Throws(s, created.err)
           ELSE Returns([created.st EXCEPT !.storage = created.pid,
                                           !.isInitialized = TRUE,
                                           !.heap = Referenced(created.st, created.pid)])

\* ResourceStore.ensureInitialized
ensureInitialized(s, openOk) ==
  IF ~s.isInitialized THEN initialize(s, openOk) ELSE Returns(s)

\* ResourceStore.createMapKey
createMapKey(type, id) == type \o Colon \o id

\* ResourceStore.createResource
createResource(s, resource, openOk) ==
  LET ready == ensureInitialized(s, openOk)
      key   == createMapKey(resource.type, resource.id)
  IN  IF ready.err # NoError THEN ready
      ELSE Provider_create(ready.st, ready.st.storage, key, resource)

\* getResource that catches what the provider raises and answers null
getResource_Swallow(s, type, id, openOk) ==
  LET ready == ensureInitialized(s, openOk)
      key   == createMapKey(type, id)
      got   == Provider_get(ready.st, ready.st.storage, key)
  IN  IF ready.err # NoError THEN ready
      ELSE IF got.err # NoError THEN Outcome(got.st, NoError, Null, <<>>, FALSE)
      ELSE got

\* ResourceStore.getResource
getResource(s, type, id, openOk) ==
  LET ready == ensureInitialized(s, openOk)
      key   == createMapKey(type, id)
  IN  IF ready.err # NoError THEN ready
      ELSE Provider_get(ready.st, ready.st.storage, key)

\* ResourceStore.updateResource
updateResource(s, resource, openOk) ==
  LET ready == ensureInitialized(s, openOk)
      key   == createMapKey(resource.type, resource.id)
  IN  IF ready.err # NoError THEN ready
      ELSE Provider_update(ready.st, ready.st.storage, key, resource)

\* ResourceStore.deleteResource
deleteResource(s, type, id, openOk) ==
  LET ready == ensureInitialized(s, openOk)
      key   == createMapKey(type, id)
  IN  IF ready.err # NoError THEN ready
      ELSE Provider_delete(ready.st, ready.st.storage, key)

\* ResourceStore.listResources
listResources(s, type, openOk) ==
  LET ready  == ensureInitialized(s, openOk)
      prefix == type \o Colon
  IN  IF ready.err # NoError THEN ready
      ELSE Provider_list(ready.st, ready.st.storage, prefix)

\* close without the isInitialized test
close_NoGuard(s) ==
  IF s.storage = 0 THEN Throws(s, ErrUndefinedStorage)
  ELSE LET closed == Provider_close(s, s.storage)
       IN  IF closed.err # NoError THEN closed
           ELSE Returns([closed.st EXCEPT !.isInitialized = FALSE])

\* ResourceStore.close
close(s) ==
  IF s.isInitialized
  THEN LET closed == Provider_close(s, s.storage)
       IN  IF closed.err # NoError THEN closed
           ELSE Returns([closed.st EXCEPT !.isInitialized = FALSE])
  ELSE Returns(s)

(***************************************************************************)
(* The state machine                                                       *)
(***************************************************************************)
\* The store and what it reaches, as one value
Cur ==
  [storageConfig |-> storageConfig, isInitialized |-> isInitialized,
   storage |-> storage, nextId |-> nextId, heap |-> heap, kv |-> kv,
   calls |-> 0]

\* The storage configurations a caller may construct a ResourceStore with.
\* customProvider is the id of the provider object passed in, 0 when absent.
Configs ==
  { [type |-> t, namespace |-> ns, customProvider |-> 0] :
      t \in {"memory", "deno-kv", "redis"}, ns \in Namespaces }
  \cup
  { [type |-> "custom", namespace |-> ns, customProvider |-> c] :
      ns \in Namespaces, c \in {0, 1} }

\* A provider a caller built to pass as customProvider: a MemoryStore, or a
\* DenoKvStore on which the caller has awaited init().
CustomProviders(config) ==
  { MemoryStore(config), [DenoKvStore(config) EXCEPT !.isOpen = TRUE] }

\* No Resource instance is under observation
NoResource ==
  /\ objs = EmptyObject
  /\ robj = Null
  /\ held = Null
  /\ rlast = Null

\* No pair of stores is being compared
NoPair == pair = Null

\* No concurrent calls are in flight
NoProcs == procs = Null

Call(op, type, id, arg, out, existed) ==
  [op |-> op, type |-> type, id |-> id, arg |-> arg,
   err |-> out.err, res |-> out.res, list |-> out.list, deleted |-> out.deleted,
   existed |-> existed, calls |-> out.st.calls,
   rep |-> last.op = op /\ last.type = type /\ last.id = id /\ last.arg = arg]

\* new ResourceStore(storageConfig)
Init ==
  /\ storageConfig \in Configs
  /\ isInitialized = FALSE
  /\ storage = 0
  /\ \E custom \in CustomProviders(storageConfig) :
       heap = IF storageConfig.customProvider = 0 THEN EmptyObject ELSE (1 :> custom)
  /\ nextId = IF storageConfig.customProvider = 0 THEN 1 ELSE 2
  /\ kv = EmptyObject
  /\ last = [op |-> "new", type |-> EmptyString, id |-> EmptyString, arg |-> Null,
             err |-> NoError, res |-> Null, list |-> <<>>, deleted |-> FALSE,
             existed |-> FALSE, calls |-> 0, rep |-> FALSE]
  /\ NoResource
  /\ NoPair
  /\ NoProcs

\* A call that would instantiate a provider is taken only within the bound.
WithinBound ==
  isInitialized \/ storageConfig.type \notin {"memory", "deno-kv"} \/ nextId <= MaxProviders

Commit(out, call) ==
  /\ isInitialized' = out.st.isInitialized
  /\ storage' = out.st.storage
  /\ nextId' = out.st.nextId
  /\ heap' = out.st.heap
  /\ kv' = out.st.kv
  /\ last' = call
  /\ UNCHANGED storageConfig
  /\ UNCHANGED <<resourceVars, pair, procs>>

\* Whether the provider holds an entry under type:id when the call reaches it
Existed(s, type, id, openOk) ==
  LET found == getResource(s, type, id, openOk)
  IN  found.err = NoError /\ found.res # Null

\* What Deno.openKv may do when the call would reach it
OpenOutcomes ==
  IF ~isInitialized /\ storageConfig.type = "deno-kv" THEN BOOLEAN ELSE {TRUE}

Initialize ==
  /\ WithinBound
  /\ \E openOk \in OpenOutcomes :
       LET out == initialize(Cur, openOk)
       IN  Commit(out, Call("initialize", EmptyString, EmptyString, Null, out, FALSE))

CreateResource ==
  /\ WithinBound
  /\ \E resource \in Resources, openOk \in OpenOutcomes :
       LET out == createResource(Cur, resource, openOk)
       IN  Commit(out, Call("createResource", resource.type, resource.id, resource, out,
                            Existed(Cur, resource.type, resource.id, openOk)))

GetResource ==
  /\ WithinBound
  /\ \E type \in Types, id \in Ids, openOk \in OpenOutcomes :
       LET out == getResource(Cur, type, id, openOk)
       IN  Commit(out, Call("getResource", type, id, Null, out, FALSE))

UpdateResource ==
  /\ WithinBound
  /\ \E resource \in Resources, openOk \in OpenOutcomes :
       LET out == updateResource(Cur, resource, openOk)
       IN  Commit(out, Call("updateResource", resource.type, resource.id, resource, out,
                            Existed(Cur, resource.type, resource.id, openOk)))

DeleteResource ==
  /\ WithinBound
  /\ \E type \in Types, id \in Ids, openOk \in OpenOutcomes :
       LET out == deleteResource(Cur, type, id, openOk)
       IN  Commit(out, Call("deleteResource", type, id, Null, out,
                            Existed(Cur, type, id, openOk)))

ListResources ==
  /\ WithinBound
  /\ \E type \in Types, openOk \in OpenOutcomes :
       LET out == listResources(Cur, type, openOk)
       IN  Commit(out, Call("listResources", type, EmptyString, Null, out, FALSE))

Close ==
  /\ LET out == close(Cur)
     IN  Commit(out, Call("close", EmptyString, EmptyString, Null, out, FALSE))

Next ==
  \/ Initialize
  \/ CreateResource
  \/ GetResource
  \/ UpdateResource
  \/ DeleteResource
  \/ ListResources
  \/ Close

Spec == Init /\ [][Next]_vars

(***************************************************************************)
(* What a caller can observe of the store in the current state: the        *)
(* outcome getResource and listResources would have if called now (with    *)
(* the medium available).                                                  *)
(***************************************************************************)
Lookup(type, id) ==
  LET out == getResource(Cur, type, id, TRUE) IN [err |-> out.err, res |-> out.res]

Listing(type) ==
  LET out == listResources(Cur, type, TRUE) IN [err |-> out.err, list |-> out.list]

Observable ==
  [get  |-> [t \in Types, i \in Ids |-> Lookup(t, i)],
   list |-> [t \in Types |-> Listing(t)]]

\* The resources of a type that getResource finds stored
StoredUnder(type) ==
  { r \in { Lookup(type, i).res : i \in Ids } : r # Null /\ r.type = type }

Range(seq) == { seq[i] : i \in 1..Len(seq) }

CrudOps == {"createResource", "getResource", "updateResource", "deleteResource", "listResources"}

\* The store keeps its resources in a MemoryStore
MemoryBacked ==
  \/ storageConfig.type = "memory"
  \/ /\ storageConfig.type = "custom"
     /\ storageConfig.customProvider # 0
     /\ heap[storageConfig.customProvider].cls = "MemoryStore"

(***************************************************************************)
(* C1: after createResource(r) completes, getResource(r.type, r.id)        *)
(* returns a resource with the type, the id and the properties of r,       *)
(* whatever calls came before.                                             *)
(***************************************************************************)
C1_CreateThenGet ==
  (last.op = "createResource" /\ last.err = NoError) =>
    LET got == Lookup(last.type, last.id)
    IN  /\ got.err = NoError
        /\ got.res # Null
        /\ got.res.type = last.arg.type
        /\ got.res.id = last.arg.id
        /\ got.res.properties = last.arg.properties

C1_Witness ==
  /\ last.op = "createResource"
  /\ last.err = NoError
  /\ last.existed
  /\ storageConfig.type = "deno-kv"
  /\ storageConfig.namespace # EmptyString

(***************************************************************************)
(* C2: listResources(type) returns exactly the resources currently stored  *)
(* under that type, each once, and none of another type (so the empty      *)
(* sequence for a type with no resources).                                 *)
(***************************************************************************)
C2_ListExactlyType ==
  (last.op = "listResources" /\ last.err = NoError) =>
    /\ Range(last.list) = StoredUnder(last.type)
    /\ Len(last.list) = Cardinality(StoredUnder(last.type))

(***************************************************************************)
(* C3: two different (type, id) pairs never share a store key, so creating *)
(* or updating one resource leaves what getResource returns for every      *)
(* other (type, id) as it was.                                             *)
(***************************************************************************)
C3_DistinctIdentity ==
  [][ (last'.op \in {"createResource", "updateResource"} /\ last'.err = NoError) =>
        \A t \in Types, i \in Ids :
          (<<t, i>> # <<last'.type, last'.id>>) =>
            /\ createMapKey(t, i) # createMapKey(last'.type, last'.id)
            /\ Lookup(t, i)' = Lookup(t, i) ]_vars

(***************************************************************************)
(* C4: on the in-memory backend deleteResource returns true exactly when   *)
(* the key held an entry, getResource returns absent right after it, and   *)
(* keeps returning absent until a create or update writes that key again.  *)
(***************************************************************************)
C4_DeleteMemory ==
  [][ MemoryBacked =>
        /\ (last'.op = "deleteResource") =>
             /\ last'.err = NoError
             /\ last'.deleted = last'.existed
             /\ \A t \in Types, i \in Ids :
                  (t = last'.type /\ i = last'.id) => Lookup(t, i)'.res = Null
        /\ \A t \in Types, i \in Ids :
             ( /\ Lookup(t, i).res = Null
               /\ ~ ( /\ last'.op \in {"createResource", "updateResource"}
                      /\ createMapKey(last'.type, last'.id) = createMapKey(t, i) ) )
             => Lookup(t, i)'.res = Null ]_vars

C4_Witness ==
  /\ MemoryBacked
  /\ last.op = "deleteResource"
  /\ last.deleted
  /\ last.existed

(***************************************************************************)
(* C5: a call on an uninitialized store whose initialization does not     *)
(* fail leaves the store initialized with the configured provider (a new   *)
(* MemoryStore or DenoKvStore, or the custom provider); a call other than  *)
(* close() on an initialized store keeps the provider it has and creates   *)
(* none.                                                                   *)
(***************************************************************************)
InitErrors == {ErrOpenFailed, ErrCustomRequired, ErrUnsupported}

C5_Lifecycle ==
  [][ /\ ( /\ ~isInitialized
           /\ last'.op \in CrudOps \cup {"initialize"}
           /\ last'.err \notin InitErrors ) =>
             /\ isInitialized'
             /\ storage' \in DOMAIN heap'
             /\ heap'[storage'].namespace = storageConfig.namespace
             /\ (storageConfig.type = "memory" =>
                   /\ storage' = nextId /\ nextId' = nextId + 1
                   /\ heap'[storage'].cls = "MemoryStore")
             /\ (storageConfig.type = "deno-kv" =>
                   /\ storage' = nextId /\ nextId' = nextId + 1
                   /\ heap'[storage'].cls = "DenoKvStore")
             /\ (storageConfig.type = "custom" =>
                   /\ storage' = storageConfig.customProvider /\ nextId' = nextId)
      /\ ( /\ isInitialized
           /\ last'.op \in CrudOps \cup {"initialize"} ) =>
             /\ isInitialized'
             /\ storage' = storage
             /\ nextId' = nextId
             /\ DOMAIN heap' = DOMAIN heap ]_vars

C5_Witness ==
  /\ isInitialized
  /\ last.op = "initialize"
  /\ last.rep
  /\ last.err = NoError
  /\ storageConfig.type = "memory"

(***************************************************************************)
(* C6: close() is not terminal.  With the store closed, the next call      *)
(* re-initializes and succeeds against an open provider, a newly created   *)
(* one for the memory and deno-kv kinds, unless the medium cannot be       *)
(* opened.  This is to hold for the memory, deno-kv and custom kinds.      *)
(***************************************************************************)
C6_CloseNotTerminal ==
  [][ ( /\ last.op = "close"
        /\ ~isInitialized
        /\ storage # 0
        /\ last'.op \in CrudOps
        /\ last'.err # ErrOpenFailed ) =>
          /\ last'.err = NoError
          /\ isInitialized'
          /\ heap'[storage'].isOpen
          /\ (storageConfig.type \in {"memory", "deno-kv"} => storage' = nextId) ]_vars

(***************************************************************************)
(* C7: on a memory-backed store close() changes nothing a caller can see:  *)
(* what getResource and listResources return after close() is what they    *)
(* returned before it.                                                     *)
(***************************************************************************)
C7_MemoryKeepsContents ==
  [][ (storageConfig.type = "memory" /\ last'.op = "close") =>
        Observable' = Observable ]_vars

(***************************************************************************)
(* C8: close() never raises and leaves the store closed; on a store that   *)
(* is not initialized (never initialized, or closed already) it changes    *)
(* nothing, and closing a provider that is already closed changes nothing. *)
(***************************************************************************)
C8_CloseIdempotent ==
  [][ (last'.op = "close") =>
        /\ last'.err = NoError
        /\ ~isInitialized'
        /\ (~isInitialized => UNCHANGED <<isInitialized, storage, nextId, heap, kv>>)
        /\ ((isInitialized /\ ~heap[storage].isOpen) => UNCHANGED <<heap, kv>>) ]_vars

C8_Witness ==
  /\ last.op = "close"
  /\ last.rep
  /\ last.err = NoError
  /\ storage # 0

(***************************************************************************)
(* C9: updateResource(r) issued right after a successful updateResource(r) *)
(* succeeds and changes nothing that getResource and listResources return, *)
(* for any type and id.                                                    *)
(***************************************************************************)
C9_UpdateIdempotent ==
  [][ ( /\ last.op = "updateResource"
        /\ last.err = NoError
        /\ last'.op = "updateResource"
        /\ last'.arg = last.arg ) =>
          /\ last'.err = NoError
          /\ Observable' = Observable ]_vars

C9_Witness ==
  /\ last.op = "updateResource"
  /\ last.rep
  /\ last.err = NoError
  /\ \E t \in Types : Len(Listing(t).list) > 1

(***************************************************************************)
(* C10: create and update of a provider are upserts.  On an open provider  *)
(* neither raises, whether or not the key held an entry, and get(key)      *)
(* then returns the value written (its type, id, properties and links).    *)
(***************************************************************************)
C10_Upsert ==
  ( /\ last.op \in {"createResource", "updateResource"}
    /\ isInitialized
    /\ heap[storage].isOpen ) =>
      /\ last.err = NoError
      /\ LET got == Provider_get(Cur, storage, createMapKey(last.type, last.id))
         IN  /\ got.err = NoError
             /\ got.res # Null
             /\ got.res.type = last.arg.type
             /\ got.res.id = last.arg.id
             /\ got.res.properties = last.arg.properties
             /\ got.res.links = last.arg.links

C10_Witness ==
  /\ last.op = "updateResource"
  /\ ~last.existed
  /\ last.err = NoError
  /\ storageConfig.type = "deno-kv"
  /\ kv # EmptyObject

(***************************************************************************)
(* C11: getResource for a key under which the provider holds no entry      *)
(* returns null and raises nothing, whenever the call reaches an open      *)
(* provider.                                                               *)
(***************************************************************************)
\* The provider the store holds has an entry under the key of (type, id)
HoldsEntry(type, id) ==
  LET this == heap[storage]
      key  == createMapKey(type, id)
  IN  IF this.cls = "MemoryStore"
      THEN MapHas(this.store, namespaceKey(this, key))
      ELSE buildKey(this, key) \in DOMAIN kv

C11_AbsentIsNull ==
  ( /\ last.op = "getResource"
    /\ isInitialized
    /\ heap[storage].isOpen
    /\ ~HoldsEntry(last.type, last.id) ) =>
      /\ last.err = NoError
      /\ last.res = Null

C11_Witness ==
  /\ last.op = "getResource"
  /\ isInitialized
  /\ heap[storage].isOpen
  /\ ~HoldsEntry(last.type, last.id)
  /\ \E t \in Types, i \in Ids : HoldsEntry(t, i)
  /\ last.res = Null

(***************************************************************************)
(* C12: a store with an unsupported kind, or with kind custom and no       *)
(* customProvider, raises its configuration error at construction or at    *)
(* initialize(), so the first call made on a constructed store, when it is *)
(* a CRUD operation, raises no configuration error.                        *)
(***************************************************************************)
ConfigErrors == {ErrCustomRequired, ErrUnsupported}

C12_ConfigFailsFast ==
  [][ (last.op = "new" /\ last'.op \in CrudOps) => last'.err \notin ConfigErrors ]_vars

(***************************************************************************)
(* C13: a CRUD call invokes one provider operation at most; when that      *)
(* operation raises, the call raises the same error, having invoked it     *)
(* once, created no provider and left the provider and the medium as they  *)
(* were.                                                                   *)
(***************************************************************************)
C13_FacadePropagates ==
  [][ (last'.op \in CrudOps) =>
        /\ last'.calls <= 1
        /\ (last'.err \notin InitErrors \cup {NoError} => last'.calls = 1)
        /\ (isInitialized' /\ ~heap'[storage'].isOpen) =>
             /\ last'.err = ErrNotInitialized
             /\ last'.calls = 1
             /\ (isInitialized => storage' = storage)
             /\ nextId' = nextId
             /\ heap' = heap
             /\ kv' = kv ]_vars

C13_Witness ==
  /\ last.op = "listResources"
  /\ last.err = ErrNotInitialized
  /\ last.calls = 1
  /\ kv # EmptyObject

(***************************************************************************)
(* A DenoKvStore used directly through its StorageProvider methods, as the *)
(* storage tests do: the provider is object 1, constructed and not yet     *)
(* opened; its callers pass the keys and prefixes the facade builds, and   *)
(* whole-segment prefixes.                                                 *)
(***************************************************************************)
KvStore == 1

Prefixes == { type \o Colon : type \in Types } \cup Types

KvOps == {"create", "get", "list", "update", "delete"}

InitKv ==
  /\ storageConfig \in { c \in Configs : c.type = "deno-kv" }
  /\ isInitialized = FALSE
  /\ storage = KvStore
  /\ heap = (KvStore :> DenoKvStore(storageConfig))
  /\ nextId = 2
  /\ kv = EmptyObject
  /\ last = [op |-> "new", type |-> EmptyString, id |-> EmptyString, arg |-> Null,
             err |-> NoError, res |-> Null, list |-> <<>>, deleted |-> FALSE,
             existed |-> FALSE, calls |-> 0, rep |-> FALSE]
  /\ NoResource
  /\ NoPair
  /\ NoProcs

\* The medium holds an entry under the key the provider builds for type:id
KvHolds(type, id) == buildKey(heap[KvStore], createMapKey(type, id)) \in DOMAIN kv

KvStoreInit ==
  /\ \E openOk \in BOOLEAN :
       LET out == DenoKvStore_init(Cur, KvStore, openOk)
       IN  Commit(out, Call("init", EmptyString, EmptyString, Null, out, FALSE))

KvStoreCreate ==
  /\ \E value \in Resources :
       LET out == DenoKvStore_create(Cur, KvStore, createMapKey(value.type, value.id), value)
       IN  Commit(out, Call("create", value.type, value.id, value, out,
                            KvHolds(value.type, value.id)))

KvStoreGet ==
  /\ \E type \in Types, id \in Ids :
       LET out == DenoKvStore_get(Cur, KvStore, createMapKey(type, id))
       IN  Commit(out, Call("get", type, id, Null, out, KvHolds(type, id)))

KvStoreList ==
  /\ \E prefix \in Prefixes :
       LET out == DenoKvStore_list(Cur, KvStore, prefix)
       IN  Commit(out, Call("list", EmptyString, EmptyString, prefix, out, FALSE))

KvStoreUpdate ==
  /\ \E value \in Resources :
       LET out == DenoKvStore_update(Cur, KvStore, createMapKey(value.type, value.id), value)
       IN  Commit(out, Call("update", value.type, value.id, value, out,
                            KvHolds(value.type, value.id)))

KvStoreDelete ==
  /\ \E type \in Types, id \in Ids :
       LET out == DenoKvStore_delete(Cur, KvStore, createMapKey(type, id))
       IN  Commit(out, Call("delete", type, id, Null, out, KvHolds(type, id)))

KvStoreClose ==
  /\ LET out == DenoKvStore_close(Cur, KvStore)
     IN  Commit(out, Call("close", EmptyString, EmptyString, Null, out, FALSE))

NextKv ==
  \/ KvStoreInit
  \/ KvStoreCreate
  \/ KvStoreGet
  \/ KvStoreList
  \/ KvStoreUpdate
  \/ KvStoreDelete
  \/ KvStoreClose

SpecKv == InitKv /\ [][NextKv]_vars

(***************************************************************************)
(* C14: every DenoKvStore operation (create, get, list, update, delete)    *)
(* called while the provider is not open - before init() has succeeded or  *)
(* after close() - raises "KV store not initialized" and leaves the medium *)
(* and the provider unchanged.                                             *)
(***************************************************************************)
C14_NotOpenFails ==
  [][ (last'.op \in KvOps /\ ~heap[KvStore].isOpen) =>
        /\ last'.err = ErrNotInitialized
        /\ kv' = kv
        /\ heap' = heap ]_vars

C14_Witness ==
  /\ last.op = "delete"
  /\ last.existed
  /\ last.err = ErrNotInitialized
  /\ ~heap[KvStore].isOpen
  /\ KvHolds(last.type, last.id)

(***************************************************************************)
(* C15: on the durable provider, list(T + ":") returns every resource      *)
(* stored under the key the provider builds for (T, id), and no resource   *)
(* of another type.                                                        *)
(***************************************************************************)
C15_ListByPrefix ==
  \A type \in Types :
    (last.op = "list" /\ last.arg = type \o Colon /\ last.err = NoError) =>
      /\ \A id \in Ids :
           KvHolds(type, id) =>
             deserializeResource(kv[buildKey(heap[KvStore], createMapKey(type, id))])
               \in Range(last.list)
      /\ \A r \in Range(last.list) : r.type = type

(***************************************************************************)
(* C17: DenoKvStore.delete(key) returns true exactly when a get issued     *)
(* after the medium's delete finds the key absent; with no other writer it *)
(* returns true for a key that had an entry and for a key that had none,   *)
(* and the key has no entry afterwards.                                    *)
(***************************************************************************)
C17_DeleteByReread ==
  (last.op = "delete" /\ last.err = NoError) =>
    /\ last.deleted =
         (DenoKvStore_get(Cur, KvStore, createMapKey(last.type, last.id)).res = Null)
    /\ last.deleted
    /\ ~KvHolds(last.type, last.id)

C17_Witness ==
  /\ last.op = "delete"
  /\ last.err = NoError
  /\ ~last.existed
  /\ last.deleted
  /\ kv # EmptyObject

(***************************************************************************)
(* A Resource instance and its callers.  The instance keeps _properties    *)
(* and _links as mapping objects; objs gives each referenced mapping       *)
(* object its entries, so that two references to one object are told from  *)
(* two objects with equal entries.                                         *)
(***************************************************************************)
PropKeys == {"p", "q"}

\* Property values: strings
PropValues == {<<"v">>, <<"w">>}

Rels == {"self", "next"}

\* Link values: href alone, and href with method, title and templated
Links ==
  { [href |-> "/r"],
    [href |-> "/r/{id}", method |-> "POST", title |-> "t", templated |-> TRUE] }

States == {Active, EmptyString}

\* obj[key] = value
ObjSet(obj, key, value) ==
  [k \in DOMAIN obj \cup {key} |-> IF k = key THEN value ELSE obj[k]]

\* delete obj[key]
ObjDelete(obj, key) == [k \in DOMAIN obj \ {key} |-> obj[k]]

\* obj[key]
ObjGet(obj, key) == IF key \in DOMAIN obj THEN obj[key] ELSE Undefined

\* The instance, the objects and what the caller holds, as one value
CurR == [objs |-> objs, robj |-> robj, held |-> held]

\* Id of an object created now
Fresh(h) ==
  CHOOSE i \in 1..(Cardinality(DOMAIN h.objs) + 1) :
    /\ i \notin DOMAIN h.objs
    /\ \A j \in 1..(i - 1) : j \in DOMAIN h.objs

\* { ...obj }
Spread(h, id) == [h EXCEPT !.objs = @ @@ (Fresh(h) :> h.objs[id])]

\* The objects still referenced by the instance or by its caller
Reachable(h) ==
  {h.robj.properties, h.robj.links, h.robj.embedded}
  \cup { h.objs[h.robj.embedded][rel] : rel \in DOMAIN h.objs[h.robj.embedded] }
  \cup (IF h.held = Null THEN {} ELSE {h.held.id})

setState(h, state) == [h EXCEPT !.robj.state = state]

getProperty(h, key) == ObjGet(h.objs[h.robj.properties], key)

setProperty(h, key, value) ==
  [h EXCEPT !.objs[h.robj.properties] = ObjSet(@, key, value)]

\* getProperties that returns the mapping the instance keeps
getProperties_NoCopy(h) ==
  [h EXCEPT !.held = [id |-> h.robj.properties, from |-> "getProperties"]]

getProperties(h) ==
  [Spread(h, h.robj.properties) EXCEPT !.held = [id |-> Fresh(h), from |-> "getProperties"]]

addLink(h, rel, link) ==
  [h EXCEPT !.objs[h.robj.links] = ObjSet(@, rel, link)]

getLink(h, rel) == ObjGet(h.objs[h.robj.links], rel)

getLinks(h) ==
  [Spread(h, h.robj.links) EXCEPT !.held = [id |-> Fresh(h), from |-> "getLinks"]]

clearLinks(h) ==
  [h EXCEPT !.objs = @ @@ (Fresh(h) :> EmptyObject), !.robj.links = Fresh(h)]

\* The resource as its accessors present it
Snapshot(h) ==
  [Resource(h.robj.type, h.robj.id, h.objs[h.robj.properties], h.objs[h.robj.links],
            h.robj.state)
   EXCEPT !.embedded = [rel \in DOMAIN h.objs[h.robj.embedded] |->
                          h.objs[h.objs[h.robj.embedded][rel]]]]

\* ResourceStore.reconstructResource of the KV-only store
reconstructResource(data) ==
  Resource(Field(data, "type"), Field(data, "id"), Field(data, "properties"),
           Field(data, "_links"), Field(data, "state"))

\* No store is under observation
NoStore ==
  /\ storageConfig = [type |-> "memory", namespace |-> EmptyString, customProvider |-> 0]
  /\ isInitialized = FALSE
  /\ storage = 0
  /\ heap = EmptyObject
  /\ nextId = 1
  /\ kv = EmptyObject
  /\ last = Null

\* new Resource(config)
InitResource ==
  /\ NoStore
  /\ \E type \in Types, properties \in {Undefined, ("p" :> <<"v">>)},
        links \in {Undefined, ("self" :> [href |-> "/r"])}, state \in {Undefined, Active} :
       /\ robj = [type |-> type, id |-> <<"x">>, properties |-> 1, links |-> 2,
                  embedded |-> 3, state |-> state]
       /\ objs = (1 :> (IF properties = Undefined THEN EmptyObject ELSE properties))
                 @@ (2 :> (IF links = Undefined THEN EmptyObject ELSE links))
                 @@ (3 :> EmptyObject)
  /\ held = Null
  /\ rlast = [op |-> "new", out |-> Null]
  /\ NoPair
  /\ NoProcs

\* The place of an object among those still referenced: ids carry no meaning
\* beyond identity, so the objects are kept in a fixed order
Place(h, i) ==
  LET emb == h.objs[h.robj.embedded]
  IN  IF i = h.robj.properties THEN 1
      ELSE IF i = h.robj.links THEN 2
      ELSE IF i = h.robj.embedded THEN 3
      ELSE IF "children" \in DOMAIN emb /\ i = emb["children"] THEN 4
      ELSE IF "parent" \in DOMAIN emb /\ i = emb["parent"] THEN 5
      ELSE 6

\* The referenced objects, each at its place
Collected(h) ==
  LET live == Reachable(h)
      at   == [p \in { Place(h, i) : i \in live } |->
                 CHOOSE i \in live : Place(h, i) = p]
      emb  == h.objs[h.robj.embedded]
  IN  [objs |-> [p \in DOMAIN at |->
                   IF p = 3 THEN [rel \in DOMAIN emb |-> Place(h, emb[rel])]
                   ELSE h.objs[at[p]]],
       robj |-> [h.robj EXCEPT !.properties = 1, !.links = 2, !.embedded = 3],
       held |-> IF h.held = Null THEN Null
                ELSE [h.held EXCEPT !.id = Place(h, h.held.id)]]

CommitR(h, op, out) ==
  /\ LET kept == Collected(h)
     IN  /\ objs' = kept.objs
         /\ robj' = kept.robj
         /\ held' = kept.held
  /\ rlast' = [op |-> op, out |-> out]
  /\ UNCHANGED <<storeVars, pair, procs>>

SetState ==
  /\ \E state \in States : CommitR(setState(CurR, state), "setState", Null)

SetProperty ==
  /\ \E key \in PropKeys, value \in PropValues :
       CommitR(setProperty(CurR, key, value), "setProperty", Null)

GetProperties ==
  /\ CommitR(getProperties(CurR), "getProperties", Null)

AddLink ==
  /\ \E rel \in Rels, link \in Links : CommitR(addLink(CurR, rel, link), "addLink", Null)

GetLinks ==
  /\ CommitR(getLinks(CurR), "getLinks", Null)

ClearLinks ==
  /\ CommitR(clearLinks(CurR), "clearLinks", Null)

\* Where the caller got a properties mapping, and where an array
PropertySources == {"getProperties"}

ArraySources == {"getEmbedded"}

\* The caller adds or replaces an entry of the mapping it got back
CallerSet ==
  /\ held # Null
  /\ held.from \notin ArraySources
  /\ \E key \in (IF held.from \in PropertySources THEN PropKeys ELSE Rels),
        value \in (IF held.from \in PropertySources THEN PropValues ELSE Links) :
       CommitR([CurR EXCEPT !.objs[held.id] = ObjSet(@, key, value)], "caller.set", Null)

\* The caller removes an entry of the mapping it got back
CallerDelete ==
  /\ held # Null
  /\ held.from \notin ArraySources
  /\ \E key \in DOMAIN objs[held.id] :
       CommitR([CurR EXCEPT !.objs[held.id] = ObjDelete(@, key)], "caller.delete", Null)

\* The resource written by DenoKvStore.create and read back by DenoKvStore.get
RoundTripDenoKv ==
  /\ CommitR(CurR, "roundTrip.denoKv", deserializeResource(StructuredClone(serializeResource(Snapshot(CurR)))))

\* The resource written by the KV-only ResourceStore and read back by it
RoundTripKv ==
  /\ CommitR(CurR, "roundTrip.kv", reconstructResource(toJSON(Snapshot(CurR))))

NextResource ==
  \/ SetState
  \/ SetProperty
  \/ GetProperties
  \/ AddLink
  \/ GetLinks
  \/ ClearLinks
  \/ CallerSet
  \/ CallerDelete
  \/ RoundTripDenoKv
  \/ RoundTripKv

SpecResource == InitResource /\ [][NextResource]_vars

(***************************************************************************)
(* C16: serializing a resource (toJSON) and reconstructing it              *)
(* (deserializeResource, reconstructResource) yields a resource with the   *)
(* same type, id and properties and the same links: the same relations,    *)
(* each with the same href, method, title and templated.                   *)
(***************************************************************************)
LinkFields == {"href", "method", "title", "templated"}

RoundTrips == {"roundTrip.denoKv", "roundTrip.kv"}

C16_RoundTrip ==
  rlast.op \in RoundTrips =>
    /\ rlast.out.type = robj.type
    /\ rlast.out.id = robj.id
    /\ rlast.out.properties = objs[robj.properties]
    /\ DOMAIN rlast.out.links = DOMAIN objs[robj.links]
    /\ \A rel \in DOMAIN objs[robj.links], f \in LinkFields :
         ObjGet(rlast.out.links[rel], f) = ObjGet(getLink(CurR, rel), f)

C16_Witness ==
  /\ rlast.op = "roundTrip.denoKv"
  /\ DOMAIN rlast.out.properties = PropKeys
  /\ DOMAIN rlast.out.links = Rels
  /\ rlast.out.links["self"] # rlast.out.links["next"]

(***************************************************************************)
(* C20: getProperties() and getLinks() return copies: when the caller adds,*)
(* replaces or removes an entry of the mapping it got back, the results of *)
(* getProperty, getLink, getProperties and getLinks stay what they were.   *)
(***************************************************************************)
\* What an accessor answers, as a sequence: empty for undefined
Answer(obj, key) == IF key \in DOMAIN obj THEN <<ObjGet(obj, key)>> ELSE <<>>

Accessors ==
  [getProperty   |-> [key \in PropKeys |-> Answer(objs[robj.properties], key)],
   getLink       |-> [rel \in Rels |-> Answer(objs[robj.links], rel)],
   getProperties |-> objs[robj.properties],
   getLinks      |-> objs[robj.links]]

C20_ReturnsCopies ==
  [][ (rlast'.op \in {"caller.set", "caller.delete"}) => Accessors' = Accessors ]_vars

C20_Witness ==
  /\ rlast.op = "caller.delete"
  /\ held.from = "getProperties"
  /\ objs[robj.properties] # EmptyObject
  /\ objs[held.id] = EmptyObject

(***************************************************************************)
(* One ResourceStore on the memory provider and one on the Deno KV         *)
(* provider, constructed with the same namespace and given the same calls, *)
(* as runStorageTests does with the two providers.  The medium opens.      *)
(***************************************************************************)
\* new ResourceStore(config), as one value
NewStore(config) ==
  [storageConfig |-> config, isInitialized |-> FALSE, storage |-> 0, nextId |-> 1,
   heap |-> EmptyObject, kv |-> EmptyObject, calls |-> 0]

\* What a call gave back to its caller
Result(out) ==
  [err |-> out.err, res |-> out.res, list |-> out.list, deleted |-> out.deleted]

InitPair ==
  /\ NoStore
  /\ NoResource
  /\ NoProcs
  /\ \E ns \in Namespaces :
       pair = [mem  |-> NewStore([type |-> "memory", namespace |-> ns, customProvider |-> 0]),
               dkv  |-> NewStore([type |-> "deno-kv", namespace |-> ns, customProvider |-> 0]),
               op   |-> "new", type |-> EmptyString, id |-> EmptyString,
               m    |-> Result(Returns(Null)),
               k    |-> Result(Returns(Null))]

\* The same call has run on both stores
CommitPair(op, type, id, outM, outK) ==
  /\ pair' = [mem  |-> [outM.st EXCEPT !.calls = 0],
              dkv  |-> [outK.st EXCEPT !.calls = 0],
              op   |-> op, type |-> type, id |-> id,
              m    |-> Result(outM),
              k    |-> Result(outK)]
  /\ UNCHANGED <<storeVars, resourceVars, procs>>

PairCreate ==
  /\ \E resource \in Resources :
       CommitPair("createResource", resource.type, resource.id,
                  createResource(pair.mem, resource, TRUE),
                  createResource(pair.dkv, resource, TRUE))

PairGet ==
  /\ \E type \in Types, id \in Ids :
       CommitPair("getResource", type, id,
                  getResource(pair.mem, type, id, TRUE),
                  getResource(pair.dkv, type, id, TRUE))

PairUpdate ==
  /\ \E resource \in Resources :
       CommitPair("updateResource", resource.type, resource.id,
                  updateResource(pair.mem, resource, TRUE),
                  updateResource(pair.dkv, resource, TRUE))

\* deleteResource of a key that holds a resource
PairDelete ==
  \E type \in Types, id \in Ids :
    /\ Existed(pair.mem, type, id, TRUE)
    /\ CommitPair("deleteResource", type, id,
                  deleteResource(pair.mem, type, id, TRUE),
                  deleteResource(pair.dkv, type, id, TRUE))

PairList ==
  /\ \E type \in Types :
       CommitPair("listResources", type, EmptyString,
                  listResources(pair.mem, type, TRUE),
                  listResources(pair.dkv, type, TRUE))

NextPair ==
  \/ PairCreate
  \/ PairGet
  \/ PairUpdate
  \/ PairDelete
  \/ PairList

SpecPair == InitPair /\ [][NextPair]_vars

(***************************************************************************)
(* C18: the memory-backed and the Deno-KV-backed store, run through the    *)
(* same createResource, getResource, updateResource, deleteResource (of    *)
(* existing keys) and listResources calls, return the same results at      *)
(* every step: presence or absence, id, property values, list length and   *)
(* membership.                                                             *)
(***************************************************************************)
\* What the tests compare of a returned resource
Seen(r) == [type |-> r.type, id |-> r.id, properties |-> r.properties]

C18_Interchangeable ==
  /\ pair.m.err = pair.k.err
  /\ (pair.m.res = Null) = (pair.k.res = Null)
  /\ (pair.m.res # Null /\ pair.k.res # Null) => Seen(pair.m.res) = Seen(pair.k.res)
  /\ pair.m.deleted = pair.k.deleted
  /\ Len(pair.m.list) = Len(pair.k.list)
  /\ { Seen(r) : r \in Range(pair.m.list) } = { Seen(r) : r \in Range(pair.k.list) }

(***************************************************************************)
(* Two updateResource calls for one key running concurrently on one        *)
(* ResourceStore.  A call runs up to its next await in one step; the other *)
(* call may run between any two steps.  The store is new, or has served a  *)
(* createResource for the key already.  Providers stay on the heap while   *)
(* a call in flight may still hold them.                                   *)
(***************************************************************************)
Procs == {1, 2}

\* The store has been constructed with the configuration and is unused
StoreIs(s) ==
  /\ storageConfig = s.storageConfig
  /\ isInitialized = s.isInitialized
  /\ storage = s.storage
  /\ nextId = s.nextId
  /\ heap = s.heap
  /\ kv = s.kv
  /\ last = Null

InitConc ==
  /\ NoResource
  /\ NoPair
  /\ \E type \in {"memory", "deno-kv"}, ns \in Namespaces :
       LET new == NewStore([type |-> type, namespace |-> ns, customProvider |-> 0])
       IN  \E r1 \in Resources, r2 \in Resources :
             /\ r1.type = r2.type /\ r1.id = r2.id
             /\ procs = [p \in Procs |->
                          [pc |-> "idle", resource |-> IF p = 1 THEN r1 ELSE r2,
                           this |-> 0, err |-> NoError]]
             /\ \/ StoreIs(new)
                \/ \E r0 \in Resources :
                     /\ r0.type = r1.type /\ r0.id = r1.id
                     /\ StoreIs([createResource(new, r0, TRUE).st EXCEPT !.calls = 0])

\* The call of process p moves to pc, holding provider this, with outcome err
Moved(p, pc, this, err) ==
  procs' = [procs EXCEPT ![p].pc = pc, ![p].this = this, ![p].err = err]

\* updateResource is called: ensureInitialized, and for a store that is not
\* initialized initialize() up to its await of StorageFactory.createStorage
UpdateResource_call ==
  /\ \E p \in Procs :
       /\ procs[p].pc = "idle"
       /\ IF isInitialized
          THEN /\ Moved(p, "ready", 0, NoError)
               /\ UNCHANGED <<nextId, heap>>
          ELSE LET created == StorageFactory_createStorage(Cur, storageConfig, TRUE)
               IN  /\ Moved(p, "created", created.pid, created.err)
                   /\ nextId' = created.st.nextId
                   /\ heap' = created.st.heap
  /\ UNCHANGED <<storageConfig, isInitialized, storage, kv, last, resourceVars, pair>>

\* initialize() resumes with the provider StorageFactory.createStorage gave
Initialize_resume ==
  /\ \E p \in Procs :
       /\ procs[p].pc = "created"
       /\ storage' = procs[p].this
       /\ isInitialized' = TRUE
       /\ Moved(p, "ready", 0, NoError)
  /\ UNCHANGED <<storageConfig, nextId, heap, kv, last, resourceVars, pair>>

\* updateResource resumes after ensureInitialized and calls this.storage.update,
\* which MemoryStore runs to its end and DenoKvStore up to its await of ensureOpen
UpdateResource_resume ==
  /\ \E p \in Procs :
       /\ procs[p].pc = "ready"
       /\ LET key == createMapKey(procs[p].resource.type, procs[p].resource.id)
              out == MemoryStore_update(Cur, storage, key, procs[p].resource)
          IN  IF IsMemory(Cur, storage)
              THEN /\ heap' = out.st.heap
                   /\ Moved(p, "done", storage, out.err)
              ELSE /\ heap' = heap
                   /\ IF ensureOpen(heap[storage]) # NoError
                      THEN Moved(p, "done", storage, ensureOpen(heap[storage]))
                      ELSE Moved(p, "opened", storage, NoError)
  /\ UNCHANGED <<storageConfig, isInitialized, storage, nextId, kv, last, resourceVars, pair>>

\* DenoKvStore.update resumes after ensureOpen and writes with kv.set
DenoKvStore_update_resume ==
  /\ \E p \in Procs :
       /\ procs[p].pc = "opened"
       /\ LET key == createMapKey(procs[p].resource.type, procs[p].resource.id)
              out == DenoKvStore_update(Cur, procs[p].this, key, procs[p].resource)
          IN  /\ kv' = out.st.kv
              /\ Moved(p, "done", procs[p].this, out.err)
  /\ UNCHANGED <<storageConfig, isInitialized, storage, nextId, heap, last, resourceVars, pair>>

NextConc ==
  \/ UpdateResource_call
  \/ Initialize_resume
  \/ UpdateResource_resume
  \/ DenoKvStore_update_resume

SpecConc == InitConc /\ [][NextConc]_vars

(***************************************************************************)
(* C19: when two updateResource calls for the same key run concurrently,   *)
(* neither raises an error, and once both have completed getResource       *)
(* returns one of the two written resources as a whole: its type, id,      *)
(* properties, links and state are all those of one of them.               *)
(***************************************************************************)
AllDone == \A p \in Procs : procs[p].pc = "done"

C19_LastWriteWins ==
  /\ \A p \in Procs : procs[p].err = NoError
  /\ AllDone =>
       LET found == Lookup(procs[1].resource.type, procs[1].resource.id)
       IN  /\ found.err = NoError
           /\ found.res # Null
           /\ \E p \in Procs : found.res = procs[p].resource

C19_Witness ==
  /\ AllDone
  /\ procs[1].resource # procs[2].resource
  /\ procs[1].this # procs[2].this
  /\ Lookup(procs[1].resource.type, procs[1].resource.id).res = procs[1].resource

(***************************************************************************)
(* A Resource instance with embedded children and a state.  _embedded maps *)
(* a relation to the id of its array, and getEmbedded gives its caller     *)
(* that array.                                                             *)
(***************************************************************************)
\* Embedded children a resource may hold over its life
MaxEmbedded == 2

EmbeddedRels == {"children", "parent"}

\* The resources embedded as children
Children == { Resource(<<"a">>, id, Undefined, Undefined, Undefined) : id \in {<<"c">>, <<"d">>} }

RECURSIVE TotalLen(_, _)
TotalLen(h, ids) ==
  IF ids = {} THEN 0
  ELSE LET i == CHOOSE i \in ids : TRUE IN Len(h.objs[i]) + TotalLen(h, ids \ {i})

\* Number of children in the arrays of _embedded
EmbeddedCount(h) ==
  LET emb == h.objs[h.robj.embedded]
  IN  TotalLen(h, { emb[rel] : rel \in DOMAIN emb })

\* addEmbedded that assigns a one-element array to the relation
addEmbedded_Overwrite(h, rel, resource) ==
  LET emb == h.objs[h.robj.embedded]
  IN  IF rel \in DOMAIN emb
      THEN [h EXCEPT !.objs[emb[rel]] = <<resource>>]
      ELSE [h EXCEPT !.objs = @ @@ (Fresh(h) :> <<resource>>),
                     !.objs[h.robj.embedded] = ObjSet(emb, rel, Fresh(h))]

addEmbedded(h, rel, resource) ==
  LET emb  == h.objs[h.robj.embedded]
      made == IF rel \in DOMAIN emb THEN h
              ELSE [h EXCEPT !.objs = @ @@ (Fresh(h) :> <<>>),
                             !.objs[h.robj.embedded] = ObjSet(emb, rel, Fresh(h))]
      array == made.objs[made.robj.embedded][rel]
  IN  [made EXCEPT !.objs[array] = Append(@, resource)]

\* getEmbedded: the array of the relation itself; undefined gives the caller nothing
getEmbedded(h, rel) ==
  LET emb == h.objs[h.robj.embedded]
  IN  IF rel \in DOMAIN emb
      THEN [h EXCEPT !.held = [id |-> emb[rel], from |-> "getEmbedded"]]
      ELSE h

\* new Resource(config)
InitEmbedded ==
  /\ NoStore
  /\ NoPair
  /\ NoProcs
  /\ \E properties \in {Undefined, ("p" :> <<"v">>)},
        links \in {Undefined, ("self" :> [href |-> "/r"])}, state \in {Undefined, Active} :
       /\ robj = [type |-> <<"a">>, id |-> <<"x">>, properties |-> 1, links |-> 2,
                  embedded |-> 3, state |-> state]
       /\ objs = (1 :> (IF properties = Undefined THEN EmptyObject ELSE properties))
                 @@ (2 :> (IF links = Undefined THEN EmptyObject ELSE links))
                 @@ (3 :> EmptyObject)
  /\ held = Null
  /\ rlast = [op |-> "new", out |-> Null]

AddEmbedded ==
  /\ EmbeddedCount(CurR) < MaxEmbedded
  /\ \E rel \in EmbeddedRels, resource \in Children :
       CommitR(addEmbedded(CurR, rel, resource), "addEmbedded",
               [rel |-> rel, resource |-> resource])

GetEmbedded ==
  /\ \E rel \in EmbeddedRels : CommitR(getEmbedded(CurR, rel), "getEmbedded", Null)

ToJSON ==
  /\ CommitR(CurR, "toJSON", toJSON(Snapshot(CurR)))

\* The caller pushes onto the array it got back
CallerPush ==
  /\ held # Null
  /\ held.from \in ArraySources
  /\ EmbeddedCount(CurR) < MaxEmbedded
  /\ \E resource \in Children :
       CommitR([CurR EXCEPT !.objs[held.id] = Append(@, resource)], "caller.push", Null)

NextEmbedded ==
  \/ SetState
  \/ ClearLinks
  \/ AddEmbedded
  \/ GetEmbedded
  \/ ToJSON
  \/ CallerPush

SpecEmbedded == InitEmbedded /\ [][NextEmbedded]_vars

(***************************************************************************)
(* C21: the observable state of a Resource changes only through            *)
(* setProperty, setState, addLink, clearLinks and addEmbedded: a caller    *)
(* that mutates what the resource handed out (here the array returned by   *)
(* getEmbedded) leaves the results of the accessors unchanged.             *)
(***************************************************************************)
Mutators == {"setProperty", "setState", "addLink", "clearLinks", "addEmbedded"}

\* What the accessors of the instance answer
AllAccessors ==
  [getState    |-> IF robj.state = Undefined THEN <<>> ELSE <<robj.state>>,
   getProperty |-> [key \in PropKeys |-> Answer(objs[robj.properties], key)],
   getLink     |-> [rel \in Rels |-> Answer(objs[robj.links], rel)],
   getEmbedded |-> [rel \in EmbeddedRels |->
                      IF rel \in DOMAIN objs[robj.embedded]
                      THEN <<objs[objs[robj.embedded][rel]]>> ELSE <<>>]]

C21_NeverExposed ==
  [][ AllAccessors' # AllAccessors => rlast'.op \in Mutators ]_vars

(***************************************************************************)
(* C22: addEmbedded is additive.  A call addEmbedded(rel, c) leaves        *)
(* getEmbedded(rel) equal to what it was before (nothing when the relation *)
(* had no array) followed by c, and leaves the sequence of every other     *)
(* relation as it was; so n calls give c1..cn in call order.               *)
(***************************************************************************)
Embedded == AllAccessors.getEmbedded

C22_AddEmbeddedAdditive ==
  [][ rlast'.op = "addEmbedded" =>
        LET rel    == rlast'.out.rel
            before == IF Embedded[rel] = <<>> THEN <<>> ELSE Embedded[rel][1]
        IN  /\ Embedded'[rel] = <<Append(before, rlast'.out.resource)>>
            /\ \A other \in EmbeddedRels \ {rel} : Embedded'[other] = Embedded[other]
    ]_vars

\* Two addEmbedded calls on one relation, the caller never having held the array
C22_Witness ==
  /\ rlast.op = "addEmbedded"
  /\ held = Null
  /\ \E rel \in EmbeddedRels :
       /\ Embedded[rel] # <<>>
       /\ Len(Embedded[rel][1]) = 2
       /\ Embedded[rel][1][1] # Embedded[rel][1][2]
       /\ Embedded[rel][1][2] = rlast.out.resource

(***************************************************************************)
(* C23: the record toJSON returns always has type, id, properties and      *)
(* _links; it has state if and only if a state has been set on the         *)
(* resource, and _embedded if and only if at least one embedded resource   *)
(* has been added.                                                         *)
(***************************************************************************)
StateSet == robj.state # Undefined

EmbeddedAdded == \E rel \in EmbeddedRels : Embedded[rel] # <<>>

C23_Serialization ==
  rlast.op = "toJSON" =>
    /\ {"type", "id", "properties", "_links"} \subseteq DOMAIN rlast.out
    /\ rlast.out["type"] = robj.type
    /\ rlast.out["id"] = robj.id
    /\ rlast.out["properties"] = objs[robj.properties]
    /\ rlast.out["_links"] = objs[robj.links]
    /\ ("_embedded" \in DOMAIN rlast.out) <=> EmbeddedAdded
    /\ ("state" \in DOMAIN rlast.out) <=> StateSet

(***************************************************************************)
(* The CRUD tool handlers of the MCP server, over a ResourceStore.  A      *)
(* handler answers an McpToolResult: content, and isError when the code    *)
(* gives the flag (a sequence: empty when the result has no isError).      *)
(* The text of a content item is JSON.stringify of a value, or a message.  *)
(***************************************************************************)
Json(value) == [kind |-> "json", value |-> value]

Message(parts) == [kind |-> "message", value |-> parts]

McpToolResult(text, isError) ==
  [content |-> <<[type |-> "text", text |-> text]>>, isError |-> isError]

\* new ResourceNotFoundError(type, id).message
ResourceNotFoundError(type, id) == <<"Resource ", type, "/", id, " not found.">>

\* new McpToolExecutionError(toolName, originalError).message
McpToolExecutionError(toolName, originalError) ==
  Message(<<"Error executing MCP tool '", toolName, "': ", originalError>>)

\* What a handler call comes to: the store after it, what it threw (a
\* sequence: empty when it returned), what it returned, and whether it
\* reached store.updateResource
Handled(st, result, updated) ==
  [st |-> st, threw |-> <<>>, result |-> result, updated |-> updated]

Thrown(st, message) ==
  [st |-> st, threw |-> <<message>>, result |-> Null, updated |-> FALSE]

\* The catch block of the handlers
Caught(st, toolName, error, updated) ==
  Handled(st, McpToolResult(McpToolExecutionError(toolName, error), <<TRUE>>), updated)

\* An optional string field of a payload is a sequence, empty when the
\* payload does not have the field
Optional(field) == IF field = <<>> THEN Undefined ELSE field[1]

\* for (const [key, value] of Object.entries(entries)) target[key] = value
RECURSIVE ForEachEntry(_, _)
ForEachEntry(target, entries) ==
  IF DOMAIN entries = {} THEN target
  ELSE LET key == CHOOSE k \in DOMAIN entries : TRUE
       IN  ForEachEntry(ObjSet(target, key, entries[key]), ObjDelete(entries, key))

\* handleGetResource that lets the failure out
handleGetResource_Rethrow(s, params, openOk) ==
  LET got == getResource(s, params.type, params.id, openOk)
  IN  IF got.err # NoError THEN Thrown(got.st, got.err)
      ELSE IF got.res = Null
      THEN Thrown(got.st, ResourceNotFoundError(params.type, params.id))
      ELSE Handled(got.st, McpToolResult(Json(toJSON(got.res)), <<>>), FALSE)

handleGetResource(s, params, openOk) ==
  LET got == getResource(s, params.type, params.id, openOk)
  IN  IF got.err # NoError THEN Caught(got.st, "getResource", got.err, FALSE)
      ELSE IF got.res = Null
      THEN Caught(got.st, "getResource", ResourceNotFoundError(params.type, params.id), FALSE)
      ELSE Handled(got.st, McpToolResult(Json(toJSON(got.res)), <<>>), FALSE)

handleListResources(s, params, openOk) ==
  LET listed == listResources(s, params.type, openOk)
  IN  IF listed.err # NoError THEN Caught(listed.st, "listResources", listed.err, FALSE)
      ELSE Handled(listed.st,
                   McpToolResult(Json([i \in 1..Len(listed.list) |-> toJSON(listed.list[i])]),
                                 <<>>),
                   FALSE)

handleCreateResource(s, parsedData, openOk) ==
  LET made        == Resource(parsedData.type, parsedData.id, parsedData.properties,
                              Undefined, Optional(parsedData.state))
      newResource == IF parsedData.links = Undefined THEN made
                     ELSE [made EXCEPT !.links = ForEachEntry(@, parsedData.links)]
      created     == createResource(s, newResource, openOk)
  IN  IF created.err # NoError THEN Caught(created.st, "createResource", created.err, FALSE)
      ELSE Handled(created.st, McpToolResult(Json(toJSON(newResource)), <<>>), FALSE)

\* The existing resource after the setProperty, setState, clearLinks and
\* addLink calls of handleUpdateResource
Updated(existingResource, parsedData) ==
  [existingResource EXCEPT
     !.properties = IF parsedData.properties = Undefined THEN @
                    ELSE ForEachEntry(@, parsedData.properties),
     !.state      = IF parsedData.state # <<>> THEN parsedData.state[1] ELSE @,
     !.links      = IF parsedData.links = Undefined THEN EmptyObject
                    ELSE ForEachEntry(EmptyObject, parsedData.links)]

\* store.updateResource(existingResource) and the result of the handler
Written(s, existingResource, openOk) ==
  LET updated == updateResource(s, existingResource, openOk)
  IN  IF updated.err # NoError
      THEN Caught(updated.st, "updateResource", updated.err, TRUE)
      ELSE Handled(updated.st, McpToolResult(Json(toJSON(existingResource)), <<>>), TRUE)

\* handleUpdateResource that writes the payload when nothing is stored
handleUpdateResource_Upsert(s, parsedData, openOk) ==
  LET got == getResource(s, parsedData.type, parsedData.id, openOk)
  IN  IF got.err # NoError THEN Caught(got.st, "updateResource", got.err, FALSE)
      ELSE IF got.res = Null
      THEN Written(got.st,
                   Updated(Resource(parsedData.type, parsedData.id, Undefined, Undefined,
                                    Undefined), parsedData),
                   openOk)
      ELSE Written(got.st, Updated(got.res, parsedData), openOk)

handleUpdateResource(s, parsedData, openOk) ==
  LET got == getResource(s, parsedData.type, parsedData.id, openOk)
  IN  IF got.err # NoError THEN Caught(got.st, "updateResource", got.err, FALSE)
      ELSE IF got.res = Null
      THEN Caught(got.st, "updateResource",
                  ResourceNotFoundError(parsedData.type, parsedData.id), FALSE)
      ELSE Written(got.st, Updated(got.res, parsedData), openOk)

\* handleDeleteResource that reports success whatever the store answered
handleDeleteResource_Always(s, params, openOk) ==
  LET gone == deleteResource(s, params.type, params.id, openOk)
  IN  IF gone.err # NoError THEN Caught(gone.st, "deleteResource", gone.err, FALSE)
      ELSE Handled(gone.st,
                   McpToolResult(Message(<<"Successfully deleted resource ", params.type,
                                           "/", params.id, ".">>), <<>>),
                   FALSE)

handleDeleteResource(s, params, openOk) ==
  LET gone == deleteResource(s, params.type, params.id, openOk)
  IN  IF gone.err # NoError THEN Caught(gone.st, "deleteResource", gone.err, FALSE)
      ELSE IF ~gone.deleted
      THEN Caught(gone.st, "deleteResource",
                  ResourceNotFoundError(params.type, params.id), FALSE)
      ELSE Handled(gone.st,
                   McpToolResult(Message(<<"Successfully deleted resource ", params.type,
                                           "/", params.id, ".">>), <<>>),
                   FALSE)

(***************************************************************************)
(* The earlier revisions of the handlers: V2 answers an McpToolResult and  *)
(* sets isError itself, V1 validates its input and returns the value or    *)
(* throws.                                                                 *)
(***************************************************************************)
\* { href: link.href } for every entry
RECURSIVE HrefOnly(_, _)
HrefOnly(target, entries) ==
  IF DOMAIN entries = {} THEN target
  ELSE LET rel == CHOOSE k \in DOMAIN entries : TRUE
       IN  HrefOnly(ObjSet(target, rel, [href |-> entries[rel].href]),
                    ObjDelete(entries, rel))

\* The existing resource after the calls of the V2 handleUpdateResource
V2_Updated(existingResource, parsedData) ==
  [existingResource EXCEPT
     !.properties = IF parsedData.properties = Undefined THEN @
                    ELSE ForEachEntry(@, parsedData.properties),
     !.state      = IF parsedData.state # <<>> /\ parsedData.state[1] # EmptyString
                    THEN parsedData.state[1] ELSE @,
     !.links      = IF parsedData.links = Undefined THEN EmptyObject
                    ELSE HrefOnly(EmptyObject, parsedData.links)]

\* The catch block of the V2 handleUpdateResource
V2_Failed(st, error, updated) ==
  Handled(st, McpToolResult(Message(<<"Failed to update resource: ", error>>), <<TRUE>>),
          updated)

V2_Written(s, existingResource, openOk) ==
  LET updated == updateResource(s, existingResource, openOk)
  IN  IF updated.err # NoError THEN V2_Failed(updated.st, updated.err, TRUE)
      ELSE Handled(updated.st, McpToolResult(Json(toJSON(existingResource)), <<>>), TRUE)

V2_handleUpdateResource(s, parsedData, openOk) ==
  LET got == getResource(s, parsedData.type, parsedData.id, openOk)
  IN  IF got.err # NoError THEN V2_Failed(got.st, got.err, FALSE)
      ELSE IF got.res = Null
      THEN Handled(got.st,
                   McpToolResult(Message(<<"Resource ", parsedData.type, "/", parsedData.id,
                                           " not found for update.">>), <<TRUE>>),
                   FALSE)
      ELSE V2_Written(got.st, V2_Updated(got.res, parsedData), openOk)

V2_handleDeleteResource(s, params, openOk) ==
  LET gone == deleteResource(s, params.type, params.id, openOk)
  IN  IF gone.err # NoError
      THEN Handled(gone.st,
                   McpToolResult(Message(<<"Failed to delete resource: ", gone.err>>),
                                 <<TRUE>>),
                   FALSE)
      ELSE Handled(gone.st,
                   McpToolResult(
                     Message(IF gone.deleted
                             THEN <<"Successfully deleted resource ", params.type, "/",
                                    params.id, ".">>
                             ELSE <<"Resource ", params.type, "/", params.id,
                                    " not found or could not be deleted.">>),
                     <<~gone.deleted>>),
                   FALSE)

\* z.string().min(1) on a field: the issues it raises
StringMin1(field) ==
  IF field = <<>> THEN <<"Required">>
  ELSE IF Len(field[1]) < 1 THEN <<"String must contain at least 1 character(s)">>
  ELSE <<>>

\* resourceSchema that asks for the fields without a minimum length
resourceSchema_NoMin(data) ==
  (IF data.type = <<>> THEN <<"Required">> ELSE <<>>)
  \o (IF data.id = <<>> THEN <<"Required">> ELSE <<>>)

\* resourceSchema.parse: the issues of the ZodError, none when the data pass
resourceSchema(data) == StringMin1(data.type) \o StringMin1(data.id)

V1_handleCreateResource(s, params, openOk) ==
  LET issues        == resourceSchema(params.resourceData)
      validatedData == params.resourceData
      made          == Resource(validatedData.type[1], validatedData.id[1],
                                validatedData.properties, Undefined,
                                Optional(validatedData.state))
      newResource   == IF validatedData.links = Undefined THEN made
                       ELSE [made EXCEPT !.links = HrefOnly(@, validatedData.links)]
      created       == createResource(s, newResource, openOk)
  IN  IF issues # <<>> THEN Thrown(s, <<"Invalid resource data: ", issues>>)
      ELSE IF created.err # NoError
      THEN Thrown(created.st, <<"Failed to create resource: ", created.err>>)
      ELSE Handled(created.st, toJSON(newResource), FALSE)

(***************************************************************************)
(* The handlers at work on one ResourceStore, memory-backed or on Deno KV, *)
(* which opens the storage on the first call that needs it.                *)
(***************************************************************************)
Task == <<"t", "a", "s", "k">>

T1 == <<"t", "1">>

T2 == <<"t", "2">>

McpTypes == { Task }

McpIds == { T1, T2 }

ParsedData(id, properties, links, state) ==
  [type |-> Task, id |-> id, properties |-> properties, links |-> links, state |-> state]

\* The payloads the tools are called with
ParsedResourceData ==
  { ParsedData(T1, Undefined, Undefined, <<>>),
    ParsedData(T1, ("p" :> <<"v">>), ("self" :> [href |-> "/r"]), <<Active>>),
    ParsedData(T1, ("p" :> <<"w">>) @@ ("q" :> <<"v">>), ("next" :> [href |-> "/n"]),
               <<EmptyString>>),
    ParsedData(T1, ("p" :> <<"v">>), Undefined, <<EmptyString>>),
    ParsedData(T1, Undefined, ("next" :> [href |-> "/n"]), <<Active>>),
    ParsedData(T2, Undefined, Undefined, <<>>) }

\* The data before resourceSchema has parsed them: type and id are
\* sequences, empty when the field is missing
Unparsed(parsedData) == [parsedData EXCEPT !.type = <<@>>, !.id = <<@>>]

\* Data that resourceSchema refuses: type or id missing or empty
InvalidResourceData ==
  { [type |-> type, id |-> id, properties |-> Undefined, links |-> Undefined,
     state |-> <<>>] :
      type \in {<<>>, <<EmptyString>>, <<Task>>}, id \in {<<>>, <<EmptyString>>, <<T1>>} }
  \ { Unparsed(parsedData) : parsedData \in ParsedResourceData }

\* One handler call: what it was given, what came of it, whether the store
\* raised an exception during it, and whether the store answered with the
\* resource (getResource not null, deleteResource true)
McpCall(op, params, out, failed, found) ==
  [op |-> op, params |-> params, threw |-> out.threw, result |-> out.result,
   updated |-> out.updated, failed |-> failed, found |-> found]

\* The store cannot open its storage
OpenFails(openOk) == ensureInitialized(Cur, openOk).err # NoError

\* new ResourceStore(storageConfig)
InitMcp ==
  /\ storageConfig \in { c \in Configs : /\ c.type \in {"memory", "deno-kv"}
                                         /\ c.namespace = EmptyString }
  /\ isInitialized = FALSE
  /\ storage = 0
  /\ heap = EmptyObject
  /\ nextId = 1
  /\ kv = EmptyObject
  /\ last = [op |-> "new"]
  /\ NoResource
  /\ NoPair
  /\ NoProcs

HandleGetResource ==
  /\ WithinBound
  /\ \E type \in McpTypes, id \in McpIds, openOk \in OpenOutcomes :
       LET params == [type |-> type, id |-> id]
       IN  \E out \in { handleGetResource(Cur, params, openOk) } :
             Commit(out, McpCall("handleGetResource", params, out, OpenFails(openOk),
                                 Existed(Cur, type, id, openOk)))

HandleListResources ==
  /\ WithinBound
  /\ \E type \in McpTypes, openOk \in OpenOutcomes :
       LET params == [type |-> type]
       IN  \E out \in { handleListResources(Cur, params, openOk) } :
             Commit(out, McpCall("handleListResources", params, out, OpenFails(openOk), TRUE))

HandleCreateResource ==
  /\ WithinBound
  /\ \E parsedData \in ParsedResourceData, openOk \in OpenOutcomes :
       \E out \in { handleCreateResource(Cur, parsedData, openOk) } :
         Commit(out, McpCall("handleCreateResource", parsedData, out, OpenFails(openOk),
                             Existed(Cur, parsedData.type, parsedData.id, openOk)))

HandleUpdateResource ==
  /\ WithinBound
  /\ \E parsedData \in ParsedResourceData, openOk \in OpenOutcomes :
       \E out \in { handleUpdateResource(Cur, parsedData, openOk) } :
         Commit(out, McpCall("handleUpdateResource", parsedData, out, OpenFails(openOk),
                             Existed(Cur, parsedData.type, parsedData.id, openOk)))

HandleDeleteResource ==
  /\ WithinBound
  /\ \E type \in McpTypes, id \in McpIds, openOk \in OpenOutcomes :
       LET params == [type |-> type, id |-> id]
       IN  \E out \in { handleDeleteResource(Cur, params, openOk) } :
             Commit(out, McpCall("handleDeleteResource", params, out, OpenFails(openOk),
                                 deleteResource(Cur, type, id, openOk).deleted))

V2_HandleUpdateResource ==
  /\ WithinBound
  /\ \E parsedData \in ParsedResourceData, openOk \in OpenOutcomes :
       \E out \in { V2_handleUpdateResource(Cur, parsedData, openOk) } :
         Commit(out, McpCall("V2_handleUpdateResource", parsedData, out,
                             OpenFails(openOk),
                             Existed(Cur, parsedData.type, parsedData.id, openOk)))

V2_HandleDeleteResource ==
  /\ WithinBound
  /\ \E type \in McpTypes, id \in McpIds, openOk \in OpenOutcomes :
       LET params == [type |-> type, id |-> id]
       IN  \E out \in { V2_handleDeleteResource(Cur, params, openOk) } :
             Commit(out, McpCall("V2_handleDeleteResource", params, out, OpenFails(openOk),
                                 deleteResource(Cur, type, id, openOk).deleted))

V1_HandleCreateResource ==
  /\ WithinBound
  /\ \E resourceData \in { Unparsed(parsedData) : parsedData \in ParsedResourceData }
                          \cup InvalidResourceData,
        openOk \in OpenOutcomes :
       LET params == [resourceData |-> resourceData]
       IN  \E out \in { V1_handleCreateResource(Cur, params, openOk) } :
             Commit(out, McpCall("V1_handleCreateResource", params, out, OpenFails(openOk),
                                 FALSE))

NextMcp ==
  \/ HandleGetResource
  \/ HandleListResources
  \/ HandleCreateResource
  \/ HandleUpdateResource
  \/ HandleDeleteResource
  \/ V2_HandleUpdateResource
  \/ V2_HandleDeleteResource
  \/ V1_HandleCreateResource

SpecMcp == InitMcp /\ [][NextMcp]_vars

\* The newest handlers
Handlers ==
  {"handleGetResource", "handleListResources", "handleCreateResource",
   "handleUpdateResource", "handleDeleteResource"}

\* The handlers that ask the store for one resource
Finders == {"handleGetResource", "handleUpdateResource", "handleDeleteResource"}

IsError == last.result.isError

Text == last.result.content[1].text

GetAnswer(type, id) ==
  handleGetResource(Cur, [type |-> type, id |-> id], TRUE).result

\* The resources handleListResources answers with now
ListAnswer(type) ==
  handleListResources(Cur, [type |-> type], TRUE).result.content[1].text.value

Deleters == {"handleDeleteResource", "V2_handleDeleteResource"}

(***************************************************************************)
(* C25: on a memory-backed store, handleDeleteResource for a resource that *)
(* is stored answers a result that is no error; after it handleGetResource *)
(* for that resource answers an error, and handleListResources for its     *)
(* type answers what it did before without that resource.  For a resource  *)
(* that is not stored handleDeleteResource answers isError true.           *)
(***************************************************************************)
C25_DeleteThenGet ==
  [][ \A type \in McpTypes, id \in McpIds :
        ( /\ last'.op \in Deleters
          /\ last'.params = [type |-> type, id |-> id]
          /\ storageConfig.type = "memory" ) =>
          LET Other(json) == json["id"] # id
          IN  IF GetAnswer(type, id).isError # <<TRUE>>
              THEN /\ IsError' # <<TRUE>>
                   /\ GetAnswer(type, id)'.isError = <<TRUE>>
                   /\ ListAnswer(type)' = SelectSeq(ListAnswer(type), Other)
              ELSE IsError' = <<TRUE>>
    ]_vars

\* A stored resource deleted while another one of its type stays
C25_Witness ==
  /\ last.op = "handleDeleteResource"
  /\ storageConfig.type = "memory"
  /\ IsError = <<>>
  /\ last.params.id = T1
  /\ GetAnswer(Task, T1).isError = <<TRUE>>
  /\ Len(ListAnswer(Task)) = 1
  /\ ListAnswer(Task)[1]["id"] = T2

\* A state as a sequence: empty when the resource has none
StateOf(resource) == IF resource.state = Undefined THEN <<>> ELSE <<resource.state>>

\* Object.assign({}, target, source)
Overridden(target, source) ==
  [k \in DOMAIN target \cup DOMAIN source |->
     IF k \in DOMAIN source THEN source[k] ELSE target[k]]

(***************************************************************************)
(* C26: after a successful handleUpdateResource(payload) on a stored       *)
(* resource, getResource returns a resource whose properties are the ones  *)
(* it had, overridden key by key with payload.properties, whose state is   *)
(* payload.state when the payload has one and the one it had otherwise,    *)
(* and whose links are exactly payload.links (none without payload.links). *)
(***************************************************************************)
C26_UpdateMerges ==
  [][ \A type \in McpTypes, id \in McpIds :
        ( /\ last'.op = "handleUpdateResource"
          /\ last'.params.type = type
          /\ last'.params.id = id
          /\ IsError' # <<TRUE>> ) =>
          LET parsedData == last'.params
              before     == Lookup(type, id).res
              after      == Lookup(type, id)'.res
          IN  /\ after # Null
              /\ after.properties =
                   Overridden(before.properties,
                              IF parsedData.properties = Undefined THEN EmptyObject
                              ELSE parsedData.properties)
              /\ StateOf(after) = (IF parsedData.state = <<>> THEN StateOf(before)
                                   ELSE parsedData.state)
              /\ after.links = (IF parsedData.links = Undefined THEN EmptyObject
                                ELSE parsedData.links)
    ]_vars

(***************************************************************************)
(* C28: handleUpdateResource for a resource the store does not hold        *)
(* answers an error result saying "not found", does not call               *)
(* store.updateResource and leaves every entry of the store as it was: the *)
(* resource is not created.                                                *)
(***************************************************************************)
Updaters == {"handleUpdateResource", "V2_handleUpdateResource"}

\* What the store answers for the resources and the types of the tools
Entries ==
  [get  |-> [type \in McpTypes, id \in McpIds |-> Lookup(type, id)],
   list |-> [type \in McpTypes |-> Listing(type)]]

\* The text of the handler says that the resource was not found
SaysNotFound(op, text, type, id) ==
  IF op = "handleUpdateResource"
  THEN text = McpToolExecutionError("updateResource", ResourceNotFoundError(type, id))
  ELSE text = Message(<<"Resource ", type, "/", id, " not found for update.">>)

C28_UpdateMissing ==
  [][ \A type \in McpTypes, id \in McpIds :
        ( /\ last'.op \in Updaters
          /\ last'.params.type = type
          /\ last'.params.id = id
          /\ ~last'.failed
          /\ Lookup(type, id).res = Null ) =>
          /\ last'.threw = <<>>
          /\ IsError' = <<TRUE>>
          /\ SaysNotFound(last'.op, Text', type, id)
          /\ ~last'.updated
          /\ Entries' = Entries
          /\ Lookup(type, id)'.res = Null
    ]_vars

\* An update of a resource that is not stored while another one is
C28_Witness ==
  /\ last.op = "handleUpdateResource"
  /\ ~last.failed
  /\ ~last.found
  /\ IsError = <<TRUE>>
  /\ Lookup(Task, T1).res = Null
  /\ Lookup(Task, T2).res # Null

(***************************************************************************)
(* C27: the validating handleCreateResource, given data whose type or id   *)
(* is missing or empty, throws an error whose message contains "Invalid    *)
(* resource data" and creates nothing: the store is left as it was.        *)
(***************************************************************************)
C27_RejectsInvalid ==
  [][ ( /\ last'.op = "V1_handleCreateResource"
        /\ last'.params.resourceData \in InvalidResourceData ) =>
        /\ last'.threw # <<>>
        /\ last'.threw[1][1] = "Invalid resource data: "
        /\ Entries' = Entries
        /\ <<isInitialized, storage, heap, kv>>' = <<isInitialized, storage, heap, kv>>
    ]_vars

\* Data with an empty type refused while the store holds a resource
C27_Witness ==
  /\ last.op = "V1_handleCreateResource"
  /\ last.params.resourceData.type = <<EmptyString>>
  /\ last.params.resourceData.id = <<T1>>
  /\ last.threw # <<>>
  /\ Lookup(Task, T1).res # Null

(***************************************************************************)
(* A store that holds a resource together with resources it embeds: the   *)
(* embedded ones are stored under their own keys as well.                  *)
(***************************************************************************)
\* The resources a collection embeds, stored on their own too
Items ==
  << Resource(<<"a">>, <<"b", ":", "x">>, [p |-> 1], Undefined, Undefined),
     Resource(<<"a", ":", "b">>, <<"b", ":", "x">>, [p |-> 1], Undefined, Undefined) >>

\* The collection
Parent ==
  [Resource(<<"a">>, <<"x">>, [p |-> 3], Undefined, Undefined) EXCEPT
     !.embedded = ("items" :> Items)]

\* What the callers store: the collection, its items, and an item changed
Family ==
  {Parent, Items[1], Items[2], [Items[1] EXCEPT !.properties = [p |-> 2]]}

InitFrame ==
  /\ Init
  /\ storageConfig.type \in {"memory", "deno-kv"}
  /\ storageConfig.namespace = EmptyString

CreateFamily ==
  /\ WithinBound
  /\ \E resource \in Family, openOk \in OpenOutcomes :
       \E out \in { createResource(Cur, resource, openOk) } :
         Commit(out, Call("createResource", resource.type, resource.id, resource, out,
                          Existed(Cur, resource.type, resource.id, openOk)))

UpdateFamily ==
  /\ WithinBound
  /\ \E resource \in Family, openOk \in OpenOutcomes :
       \E out \in { updateResource(Cur, resource, openOk) } :
         Commit(out, Call("updateResource", resource.type, resource.id, resource, out,
                          Existed(Cur, resource.type, resource.id, openOk)))

NextFrame ==
  \/ CreateFamily
  \/ GetResource
  \/ UpdateFamily
  \/ DeleteResource
  \/ ListResources

SpecFrame == InitFrame /\ [][NextFrame]_vars

(***************************************************************************)
(* C29: createResource, updateResource and deleteResource leave the entry  *)
(* under every key other than type:id of their argument as it was, the     *)
(* entries of the resources a deleted resource embeds included;            *)
(* getResource and listResources leave every entry as it was.              *)
(***************************************************************************)
Writers == {"createResource", "updateResource", "deleteResource"}

Readers == {"getResource", "listResources"}

\* The keys type:id of the callers
Keys == { createMapKey(type, id) : type \in Types, id \in Ids }

\* What the provider of the store answers for a key; nothing before the
\* store has a provider
EntryUnder(key) ==
  IF storage = 0 THEN [err |-> NoError, res |-> Null]
  ELSE LET out == Provider_get(Cur, storage, key) IN [err |-> out.err, res |-> out.res]

C29_Frame ==
  [][ \A key \in Keys :
        ( \/ last'.op \in Readers
          \/ /\ last'.op \in Writers
             /\ key # createMapKey(last'.type, last'.id) ) =>
          EntryUnder(key)' = EntryUnder(key)
    ]_vars

\* The parent deleted, the resources it embeds still stored
C29_Witness ==
  /\ last.op = "deleteResource"
  /\ last.type = Parent.type
  /\ last.id = Parent.id
  /\ last.existed
  /\ last.deleted
  /\ EntryUnder(createMapKey(Parent.type, Parent.id)).res = Null
  /\ \A n \in 1..Len(Items) :
       EntryUnder(createMapKey(Items[n].type, Items[n].id)).res # Null


(***************************************************************************)
(* Resource instances a caller keeps after storing them in a ResourceStore *)
(* on the in-memory provider.  objs maps the identity of an instance to    *)
(* its fields; the provider's Map holds what create and update were given. *)
(***************************************************************************)
\* The identities of the instances the caller constructs
Instances == {1, 2}

\* A serialized copy of instance n, as a provider with a serialization step keeps
Passed_Serialized(n) ==
  [type |-> objs[n].type, id |-> objs[n].id, ref |-> 0, data |-> <<objs[n]>>]

\* The argument of createResource / updateResource: instance n itself.  type
\* and id are what getType() and getId() answer, fixed at construction.
Passed(n) ==
  [type |-> objs[n].type, id |-> objs[n].id, ref |-> n, data |-> <<>>]

\* The fields a caller reads through a value the store returned
Fields(value) ==
  IF value.ref \in DOMAIN objs THEN objs[value.ref] ELSE value.data[1]

\* What getResource answers for the key of instance n
Holder(n) == getResource(Cur, objs[n].type, objs[n].id, TRUE).res

\* Instance n is the value stored under its key
IsStored(n) == Holder(n) # Null /\ Holder(n).ref = n

LiveCall(op, ref, arg, out) == [op |-> op, ref |-> ref, arg |-> arg, res |-> out.res]

CommitLive(out, instances, call) ==
  /\ isInitialized' = out.st.isInitialized
  /\ storage' = out.st.storage
  /\ nextId' = out.st.nextId
  /\ heap' = out.st.heap
  /\ kv' = out.st.kv
  /\ objs' = instances
  /\ rlast' = call
  /\ UNCHANGED <<storageConfig, last, robj, held, pair, procs>>

\* new ResourceStore({type: "memory"}) and two instances constructed with
\* only a type and an id
InitLive ==
  /\ storageConfig = [type |-> "memory", namespace |-> EmptyString, customProvider |-> 0]
  /\ isInitialized = FALSE
  /\ storage = 0
  /\ heap = EmptyObject
  /\ nextId = 1
  /\ kv = EmptyObject
  /\ last = Null
  /\ \E id \in {<<"x">>, <<"y">>} :
       objs = (1 :> Resource(<<"a">>, <<"x">>, Undefined, Undefined, Undefined))
              @@ (2 :> Resource(<<"a">>, id, Undefined, Undefined, Undefined))
  /\ robj = Null
  /\ held = Null
  /\ rlast = [op |-> "new", ref |-> 0, arg |-> Null, res |-> Null]
  /\ NoPair
  /\ NoProcs

LiveKey == <<"p">>
LiveValues == {1, 2}
LiveRel == <<"s", "e", "l", "f">>
LiveLink == [href |-> <<"/", "a">>]

LiveCreateResource ==
  /\ WithinBound
  /\ \E n \in Instances :
       \E out \in { createResource(Cur, Passed(n), TRUE) } :
         CommitLive(out, objs, LiveCall("createResource", n, Null, out))

LiveUpdateResource ==
  /\ WithinBound
  /\ \E n \in Instances :
       \E out \in { updateResource(Cur, Passed(n), TRUE) } :
         CommitLive(out, objs, LiveCall("updateResource", n, Null, out))

LiveGetResource ==
  /\ WithinBound
  /\ \E n \in Instances :
       \E out \in { getResource(Cur, objs[n].type, objs[n].id, TRUE) } :
         CommitLive(out, objs, LiveCall("getResource", n, Null, out))

\* instance.setProperty(key, value) by the caller holding the instance
LiveSetProperty ==
  /\ Instances \subseteq DOMAIN objs
  /\ \E n \in Instances, value \in LiveValues :
       CommitLive([st |-> Cur, res |-> Null],
                  [objs EXCEPT ![n].properties = ObjSet(@, LiveKey, value)],
                  LiveCall("setProperty", n, value, [res |-> Null]))

\* instance.setState(state)
LiveSetState ==
  /\ Instances \subseteq DOMAIN objs
  /\ \E n \in Instances, state \in {Active} :
       CommitLive([st |-> Cur, res |-> Null],
                  [objs EXCEPT ![n].state = state],
                  LiveCall("setState", n, state, [res |-> Null]))

\* instance.addLink(rel, href)
LiveAddLink ==
  /\ Instances \subseteq DOMAIN objs
  /\ \E n \in Instances :
       CommitLive([st |-> Cur, res |-> Null],
                  [objs EXCEPT ![n].links = ObjSet(@, LiveRel, LiveLink)],
                  LiveCall("addLink", n, LiveLink, [res |-> Null]))

NextLive ==
  \/ LiveCreateResource
  \/ LiveUpdateResource
  \/ LiveGetResource
  \/ LiveSetProperty
  \/ LiveSetState
  \/ LiveAddLink

SpecLive == InitLive /\ [][NextLive]_vars


StoreWriters == {"createResource", "updateResource"}
InstanceMutators == {"setProperty", "setState", "addLink"}

\* What a caller reads through the Resource getResource answers for the key
\* of instance n: [found, property, state, link], absent values as <<>>
ReadThrough(n) ==
  IF Holder(n) = Null
  THEN [found |-> FALSE, property |-> <<>>, state |-> <<>>, link |-> <<>>]
  ELSE LET fields == Fields(Holder(n))
       IN  [found |-> TRUE,
            property |-> Answer(fields.properties, LiveKey),
            state |-> StateOf(fields),
            link |-> Answer(fields.links, LiveRel)]

\* What the caller reads on instance n itself
Own(n) ==
  [found |-> TRUE,
   property |-> Answer(objs[n].properties, LiveKey),
   state |-> StateOf(objs[n]),
   link |-> Answer(objs[n].links, LiveRel)]

\* C30: on the in-memory provider, after createResource or updateResource is
\* given an instance, getResource for its key answers that very instance; and
\* after setProperty, setState or addLink is applied to an instance that is
\* the stored one, getResource still answers that instance and the property,
\* state and link read through it are the ones just set, with no
\* updateResource in between.
C30_LiveReference ==
  [][ \A n \in Instances :
        /\ (rlast'.op \in StoreWriters /\ rlast'.ref = n) => IsStored(n)'
        /\ (rlast'.op \in InstanceMutators /\ rlast'.ref = n /\ IsStored(n)) =>
             /\ IsStored(n)'
             /\ ReadThrough(n)' = Own(n)'
             /\ rlast'.op = "setProperty" => ReadThrough(n)'.property = <<rlast'.arg>>
             /\ rlast'.op = "setState" => ReadThrough(n)'.state = <<rlast'.arg>>
             /\ rlast'.op = "addLink" => ReadThrough(n)'.link = <<rlast'.arg>>
        /\ (rlast'.op \in InstanceMutators \cup {"getResource"}) =>
             (Holder(n) = Null) = (Holder(n)' = Null)
    ]_vars

\* An instance was stored, then given a property, a state and a link, and the
\* last call changed the property read through getResource to 2 with no
\* updateResource since
C30_Witness ==
  /\ rlast.op = "setProperty"
  /\ rlast.arg = 2
  /\ IsStored(rlast.ref)
  /\ ReadThrough(rlast.ref) = [found |-> TRUE, property |-> <<2>>, state |-> <<Active>>,
                        link |-> <<LiveLink>>]

(***************************************************************************)
(* Embedded resources through the durable provider                         *)
(***************************************************************************)
\* value === undefined, for a value that may be a string of any length
IsUndefined(value) == ToString(value) = ToString(Undefined)

\* getType() and getId() of a resource, absent values as <<>>
Identity(resource) ==
  << IF IsUndefined(resource.type) THEN <<>> ELSE <<resource.type>>,
     IF IsUndefined(resource.id) THEN <<>> ELSE <<resource.id>> >>

\* The fields every record of the wire format carries
WireFields == {"type", "id", "properties", "_links"}

\* The children of a stored record, over all relations
StoredChildren(value) ==
  IF "_embedded" \in DOMAIN value
  THEN UNION { { value["_embedded"][rel][i] : i \in 1..Len(value["_embedded"][rel]) } :
                 rel \in DOMAIN value["_embedded"] }
  ELSE {}

\* C31: a resource with embedded children written through the durable
\* provider is stored with every child as a nested record of the wire format
\* (type, id, properties, _links), and getResource reads it back with the same
\* relations, the same number of children per relation in the same order,
\* each child with its original type and id.
C31_EmbeddedRoundTrip ==
  /\ \A key \in DOMAIN kv :
       \A child \in StoredChildren(kv[key]) : WireFields \subseteq DOMAIN child
  /\ ( /\ storageConfig.type = "deno-kv"
       /\ last.op = "getResource"
       /\ last.type = Parent.type
       /\ last.id = Parent.id
       /\ last.err = NoError
       /\ last.res # Null ) =>
         /\ DOMAIN last.res.embedded = DOMAIN Parent.embedded
         /\ \A rel \in DOMAIN Parent.embedded :
              /\ Len(last.res.embedded[rel]) = Len(Parent.embedded[rel])
              /\ \A i \in 1..Len(Parent.embedded[rel]) :
                   Identity(last.res.embedded[rel][i]) = Identity(Parent.embedded[rel][i])

(***************************************************************************)
(* A DenoKvStore on a medium that another client of the same Deno KV       *)
(* database also writes to                                                 *)
(***************************************************************************)
\* The values the other client stores: the numbers 0 and 5
Malformed == {Primitive(0), Primitive(5)}

InitMalformed ==
  /\ InitKv
  /\ storageConfig.namespace = EmptyString

\* Deno.Kv.set(key, n) by the other client
MediumSet ==
  /\ storage = KvStore
  /\ \E type \in Types, id \in Ids, value \in Malformed :
       \E key \in { buildKey(heap[KvStore], createMapKey(type, id)) } :
         /\ kv' = KvSet(kv, key, value)
         /\ last' = [last EXCEPT !.op = "medium.set", !.type = type, !.id = id,
                                 !.arg = Null, !.err = NoError, !.res = Null,
                                 !.list = <<>>, !.deleted = FALSE, !.existed = FALSE,
                                 !.rep = FALSE]
         /\ UNCHANGED <<storageConfig, isInitialized, storage, nextId, heap>>
         /\ UNCHANGED <<resourceVars, pair, procs>>

NextMalformed ==
  \/ KvStoreInit
  \/ KvStoreCreate
  \/ KvStoreGet
  \/ KvStoreList
  \/ KvStoreDelete
  \/ MediumSet

SpecMalformed == InitMalformed /\ [][NextMalformed]_vars

\* The value the medium holds under the key of type:id is no object
HoldsMalformed(type, id) ==
  /\ KvHolds(type, id)
  /\ ~IsObject(kv[buildKey(heap[KvStore], createMapKey(type, id))])

\* An entry the prefix scan of list(prefix) visits is no object
ScansMalformed(prefix) ==
  LET entries == KvList(kv, buildKey(heap[KvStore], prefix))
  IN  \E i \in 1..Len(entries) : ~IsObject(entries[i])

\* C32: on an open DenoKvStore, get of a key whose stored value is not an
\* object, and list over a prefix holding such a value, raise "Invalid
\* resource data" instead of returning a resource or the absent value.
C32_MalformedRaises ==
  /\ ( /\ last.op = "get"
       /\ heap[KvStore].isOpen
       /\ HoldsMalformed(last.type, last.id) ) => last.err = ErrInvalidData
  /\ ( /\ last.op = "list"
       /\ heap[KvStore].isOpen
       /\ ScansMalformed(last.arg) ) => last.err = ErrInvalidData

(***************************************************************************)
(* Two DenoKvStore providers with different namespaces on one Deno KV      *)
(* database                                                                *)
(***************************************************************************)
Tenants == {1, 2}

TenantTypes == { <<"a">>, <<"b">> }
TenantIds == { <<"x">>, <<"b", ":", "x">> }

\* The namespaces of the two providers: different, the second possibly none
TenantNamespaces == { <<ns1, ns2>> \in ({<<"a">>} \X {EmptyString, <<"n">>}) : ns1 # ns2 }

\* A resource written through provider p carries p in its properties
Owned(p, type, id) == Resource(type, id, [owner |-> p], Undefined, Undefined)

TenantCall(p, op, type, id, out) ==
  [op |-> op, via |-> p, type |-> type, id |-> id,
   err |-> out.err, res |-> out.res, list |-> out.list, deleted |-> out.deleted]

InitTenants ==
  /\ \E ns \in TenantNamespaces :
       /\ storageConfig = [type |-> "deno-kv", namespace |-> ns[1], customProvider |-> 0]
       /\ heap = (1 :> [DenoKvStore([namespace |-> ns[1]]) EXCEPT !.isOpen = TRUE])
                 @@ (2 :> [DenoKvStore([namespace |-> ns[2]]) EXCEPT !.isOpen = TRUE])
  /\ isInitialized = FALSE
  /\ storage = 0
  /\ nextId = 3
  /\ kv = EmptyObject
  /\ last = [op |-> "new", via |-> 0, type |-> EmptyString, id |-> EmptyString,
             err |-> NoError, res |-> Null, list |-> <<>>, deleted |-> FALSE]
  /\ NoResource
  /\ NoPair
  /\ NoProcs

TenantCreate ==
  /\ heap[1].isOpen
  /\ \E p \in Tenants, type \in TenantTypes, id \in TenantIds :
       \E out \in { DenoKvStore_create(Cur, p, createMapKey(type, id), Owned(p, type, id)) } :
         Commit(out, TenantCall(p, "create", type, id, out))

TenantUpdate ==
  /\ heap[1].isOpen
  /\ \E p \in Tenants, type \in TenantTypes, id \in TenantIds :
       \E out \in { DenoKvStore_update(Cur, p, createMapKey(type, id), Owned(p, type, id)) } :
         Commit(out, TenantCall(p, "update", type, id, out))

TenantGet ==
  /\ heap[1].isOpen
  /\ \E p \in Tenants, type \in TenantTypes, id \in TenantIds :
       \E out \in { DenoKvStore_get(Cur, p, createMapKey(type, id)) } :
         Commit(out, TenantCall(p, "get", type, id, out))

TenantList ==
  /\ heap[1].isOpen
  /\ \E p \in Tenants, type \in TenantTypes :
       \E out \in { DenoKvStore_list(Cur, p, type \o Colon) } :
         Commit(out, TenantCall(p, "list", type, EmptyString, out))

TenantDelete ==
  /\ heap[1].isOpen
  /\ \E p \in Tenants, type \in TenantTypes, id \in TenantIds :
       \E out \in { DenoKvStore_delete(Cur, p, createMapKey(type, id)) } :
         Commit(out, TenantCall(p, "delete", type, id, out))

NextTenants ==
  \/ TenantCreate
  \/ TenantUpdate
  \/ TenantGet
  \/ TenantList
  \/ TenantDelete

SpecTenants == InitTenants /\ [][NextTenants]_vars

\* The provider a returned resource was written through
Owner(resource) == resource.properties.owner

\* The (type, id) pairs under which provider p still reads a resource that
\* was written through p
Mine(p) ==
  { pair_ \in TenantTypes \X TenantIds :
      LET got == DenoKvStore_get(Cur, p, createMapKey(pair_[1], pair_[2])).res
      IN  got # Null /\ Owner(got) = p }

\* C33: with two providers of different namespaces (or one without a
\* namespace) on one medium, a create, update or delete issued through one
\* provider leaves every resource written through the other in place, and a
\* get or list issued through one provider never returns a resource written
\* through the other.
C33_NamespaceIsolation ==
  [][ /\ \A p \in Tenants : p # last'.via => Mine(p) \subseteq Mine(p)'
      /\ (last'.op = "get" /\ last'.res # Null) => Owner(last'.res) = last'.via
      /\ \A i \in 1..Len(last'.list) : Owner(last'.list[i]) = last'.via
    ]_vars

(***************************************************************************)
(* The order of MemoryStore.list                                           *)
(***************************************************************************)
OrderStore == 1
OrderType == <<"a">>
OrderIds == { <<"x">>, <<"y">>, <<"z">> }
OrderValues == { Resource(OrderType, id, [p |-> n], Undefined, Undefined) :
                   id \in OrderIds, n \in {1, 2} }

\* The key a listed resource is stored under
KeyOf(resource) == createMapKey(resource.type, resource.id)

\* What list("a:") answers, and the keys of the answer in its order
Listed == MemoryStore_list(Cur, OrderStore, OrderType \o Colon).list
ListedKeys == [i \in 1..Len(Listed) |-> KeyOf(Listed[i])]

\* A call of the provider, with the keys deleted by the calls so far
OrderCall(op, key, value, out, gone) ==
  [op |-> op, key |-> key, value |-> value, list |-> out.list, deleted |-> out.deleted,
   recreated |-> op = "create" /\ key \in last.gone, gone |-> gone]

InitOrder ==
  /\ storageConfig = [type |-> "memory", namespace |-> EmptyString, customProvider |-> 0]
  /\ isInitialized = FALSE
  /\ storage = OrderStore
  /\ heap = (OrderStore :> MemoryStore(storageConfig))
  /\ nextId = 2
  /\ kv = EmptyObject
  /\ last = [op |-> "new", key |-> EmptyString, value |-> Null, list |-> <<>>,
             deleted |-> FALSE, recreated |-> FALSE, gone |-> {}]
  /\ NoResource
  /\ NoPair
  /\ NoProcs

OrderCreate ==
  /\ storage = OrderStore
  /\ \E value \in OrderValues :
       \E out \in { MemoryStore_create(Cur, OrderStore, KeyOf(value), value) } :
         Commit(out, OrderCall("create", KeyOf(value), value, out, last.gone))

OrderUpdate ==
  /\ storage = OrderStore
  /\ \E value \in OrderValues :
       \E out \in { MemoryStore_update(Cur, OrderStore, KeyOf(value), value) } :
         Commit(out, OrderCall("update", KeyOf(value), value, out, last.gone))

OrderDelete ==
  /\ storage = OrderStore
  /\ \E id \in OrderIds :
       \E out \in { MemoryStore_delete(Cur, OrderStore, createMapKey(OrderType, id)) } :
         Commit(out, OrderCall("delete", createMapKey(OrderType, id), Null, out,
                               IF out.deleted
                               THEN last.gone \cup {createMapKey(OrderType, id)}
                               ELSE last.gone))

OrderList ==
  /\ storage = OrderStore
  /\ \E out \in { MemoryStore_list(Cur, OrderStore, OrderType \o Colon) } :
       Commit(out, OrderCall("list", EmptyString, Null, out, last.gone))

NextOrder ==
  \/ OrderCreate
  \/ OrderUpdate
  \/ OrderDelete
  \/ OrderList

SpecOrder == InitOrder /\ [][NextOrder]_vars

\* C34: MemoryStore.list answers the matching values in the order in which
\* their keys were first inserted: create or update of a key that is present
\* replaces the value at the key's position, create or update of an absent
\* key (never stored, or deleted before) puts it last, delete removes the
\* key and keeps the order of the others, and list answers that order.
C34_InsertionOrder ==
  [][ LET key      == last'.key
          Other(k) == k # key
      IN  /\ last'.op \in {"create", "update"} =>
               /\ ListedKeys' = IF key \in Range(ListedKeys)
                                THEN ListedKeys
                                ELSE Append(ListedKeys, key)
               /\ \A i \in 1..Len(ListedKeys') :
                    Listed'[i] = IF ListedKeys'[i] = key THEN last'.value ELSE Listed[i]
          /\ last'.op = "delete" => ListedKeys' = SelectSeq(ListedKeys, Other)
          /\ last'.op = "list" => (last'.list = Listed /\ Listed' = Listed)
    ]_vars

\* A key that was deleted is created again while two other keys are stored,
\* and is listed last
C34_Witness ==
  /\ last.op = "create"
  /\ last.recreated
  /\ Len(ListedKeys) = 3
  /\ ListedKeys[3] = last.key

(***************************************************************************)
(* Concurrent calls and initialization                                     *)
(***************************************************************************)
\* The providers StorageFactory.createStorage has constructed so far
ProvidersCreated == nextId - 1

\* C35: when two updateResource calls are issued concurrently on a store,
\* StorageFactory.createStorage constructs at most one provider (exactly one
\* once both calls have completed), both calls run against the same
\* provider, and once both have completed every provider that was created
\* is the one the store references.
C35_InitializedOnce ==
  /\ ProvidersCreated <= 1
  /\ AllDone =>
       /\ ProvidersCreated = 1
       /\ \A p \in Procs, q \in Procs : procs[p].this = procs[q].this
       /\ DOMAIN heap \subseteq {storage}

(***************************************************************************)
(* An updateResource call interleaved with close() at their awaits.        *)
(* Process 1 is the updateResource call, process Closer the close() call.  *)
(***************************************************************************)
Closer == 2

ErrBadResource == "BadResource"

\* close() has been called on provider pid: for a DenoKvStore that was open,
\* kv.close() has run
CloseCalledOn(pid) ==
  /\ procs[Closer].pc \in {"close.kv", "close.store", "done"}
  /\ procs[Closer].this = pid

\* An initialized store holding one resource, an updateResource call and a
\* close() call about to be issued
InitClose ==
  /\ NoResource
  /\ NoPair
  /\ \E type \in {"memory", "deno-kv"}, r0 \in Resources, r1 \in Resources :
       LET new == NewStore([type |-> type, namespace |-> EmptyString, customProvider |-> 0])
       IN  /\ r0.type = r1.type /\ r0.id = r1.id
           /\ StoreIs([createResource(new, r0, TRUE).st EXCEPT !.calls = 0])
           /\ procs = (1 :> [pc |-> "idle", resource |-> r1, this |-> 0, err |-> NoError])
                      @@ (Closer :> [pc |-> "close.idle", resource |-> r1, this |-> 0,
                                     err |-> NoError])

\* close() is called: for an initialized store this.storage.close() runs up
\* to its first await: MemoryStore.close to its end, DenoKvStore.close through
\* this.kv.close() when the provider is open
Close_call ==
  /\ procs[Closer].pc = "close.idle"
  /\ IF ~isInitialized
     THEN Moved(Closer, "done", 0, NoError)
     ELSE IF ~IsMemory(Cur, storage) /\ heap[storage].isOpen
     THEN Moved(Closer, "close.kv", storage, NoError)
     ELSE Moved(Closer, "close.store", storage, NoError)
  /\ UNCHANGED <<storageConfig, isInitialized, storage, nextId, heap, kv, last,
                 resourceVars, pair>>

\* DenoKvStore.close resumes after kv.close(): this.isOpen = false
DenoKvStore_close_resume ==
  /\ procs[Closer].pc = "close.kv"
  /\ heap' = DenoKvStore_close(Cur, procs[Closer].this).st.heap
  /\ Moved(Closer, "close.store", procs[Closer].this, NoError)
  /\ UNCHANGED <<storageConfig, isInitialized, storage, nextId, kv, last, resourceVars, pair>>

\* close() resumes after this.storage.close(): this.isInitialized = false
Close_resume ==
  /\ procs[Closer].pc = "close.store"
  /\ isInitialized' = FALSE
  /\ Moved(Closer, "done", procs[Closer].this, NoError)
  /\ UNCHANGED <<storageConfig, storage, nextId, heap, kv, last, resourceVars, pair>>

\* DenoKvStore.update resumes after ensureOpen and calls kv.set, which fails
\* on a handle that kv.close() has closed
DenoKvStore_update_settle ==
  /\ procs[1].pc = "opened"
  /\ LET key == createMapKey(procs[1].resource.type, procs[1].resource.id)
         this == heap[procs[1].this]
     IN  IF CloseCalledOn(procs[1].this)
         THEN /\ kv' = kv
              /\ Moved(1, "done", procs[1].this, ErrBadResource)
         ELSE /\ kv' = KvSet(kv, buildKey(this, key),
                             StructuredClone(serializeResource(procs[1].resource)))
              /\ Moved(1, "done", procs[1].this, NoError)
  /\ UNCHANGED <<storageConfig, isInitialized, storage, nextId, heap, last, resourceVars, pair>>

NextClose ==
  \/ UpdateResource_call
  \/ Initialize_resume
  \/ UpdateResource_resume
  \/ DenoKvStore_update_settle
  \/ Close_call
  \/ DenoKvStore_close_resume
  \/ Close_resume

SpecClose == InitClose /\ [][NextClose]_vars

\* C36: an updateResource call that interleaves with close() never invokes
\* this.storage.update on a provider on which close() has already been
\* called, and it completes without an error.
C36_NeverClosedProvider ==
  [][ /\ (procs[1].pc = "ready" /\ procs'[1].pc # "ready") => ~CloseCalledOn(storage)
      /\ procs'[1].pc = "done" => procs'[1].err = NoError
    ]_vars

(***************************************************************************)
(* handleUpdateResource and handleDeleteResource for one key, interleaved  *)
(* at the awaits of the handlers.  Process 1 is the update, process 2 the  *)
(* delete.                                                                 *)
(***************************************************************************)
\* The resource the store may hold when the handlers are called
Stored0 == Resource(Task, T1, ("p" :> <<"u">>), Undefined, Undefined)

InitRace ==
  /\ NoResource
  /\ NoPair
  /\ \E type \in {"memory", "deno-kv"},
        stored \in {<<>>, <<Stored0>>, <<[Stored0 EXCEPT !.state = Active]>>},
        parsedData \in { d \in ParsedResourceData : d.id = T1 } :
       LET new  == NewStore([type |-> type, namespace |-> EmptyString, customProvider |-> 0])
           init == IF stored # <<>> THEN createResource(new, stored[1], TRUE).st
                   ELSE initialize(new, TRUE).st
       IN  /\ StoreIs([init EXCEPT !.calls = 0])
           /\ procs = (1 :> [pc |-> "update.idle", params |-> parsedData,
                             existing |-> Null, isError |-> FALSE])
                      @@ (2 :> [pc |-> "delete.idle", params |-> parsedData,
                                existing |-> Null, isError |-> FALSE])

\* handleUpdateResource up to its second await: store.getResource, the
\* not-found exit, and the mutation of the resource it was given.  The
\* in-memory provider gave out the stored instance, which the mutation
\* changes in place.
Update_get ==
  /\ procs[1].pc = "update.idle"
  /\ \E got \in { getResource(Cur, procs[1].params.type, procs[1].params.id, TRUE) } :
       IF got.err # NoError \/ got.res = Null
       THEN /\ procs' = [procs EXCEPT ![1].pc = "done", ![1].isError = TRUE]
            /\ heap' = heap
       ELSE \E existingResource \in { Updated(got.res, procs[1].params) } :
              /\ procs' = [procs EXCEPT ![1].pc = "update.write",
                                        ![1].existing = existingResource]
              /\ heap' = IF IsMemory(Cur, storage)
                         THEN MemoryStore_update(Cur, storage,
                                createMapKey(existingResource.type, existingResource.id),
                                existingResource).st.heap
                         ELSE heap
  /\ UNCHANGED <<storageConfig, isInitialized, storage, nextId, kv, last, resourceVars, pair>>

\* handleUpdateResource from store.updateResource(existingResource) on
Update_write ==
  /\ procs[1].pc = "update.write"
  /\ \E out \in { updateResource(Cur, procs[1].existing, TRUE) } :
       /\ heap' = out.st.heap
       /\ kv' = out.st.kv
       /\ procs' = [procs EXCEPT ![1].pc = "done", ![1].isError = out.err # NoError]
  /\ UNCHANGED <<storageConfig, isInitialized, storage, nextId, last, resourceVars, pair>>

\* handleDeleteResource
Delete_call ==
  /\ procs[2].pc = "delete.idle"
  /\ \E out \in { deleteResource(Cur, procs[2].params.type, procs[2].params.id, TRUE) } :
       /\ heap' = out.st.heap
       /\ kv' = out.st.kv
       /\ procs' = [procs EXCEPT ![2].pc = "done",
                                 ![2].isError = out.err # NoError \/ ~out.deleted]
  /\ UNCHANGED <<storageConfig, isInitialized, storage, nextId, last, resourceVars, pair>>

NextRace ==
  \/ Update_get
  \/ Update_write
  \/ Delete_call

SpecRace == InitRace /\ [][NextRace]_vars

\* C37: once handleUpdateResource and handleDeleteResource for the same key
\* have both completed and the delete reported success, getResource for the
\* key answers null.
C37_DeleteNotUndone ==
  ( /\ procs[1].pc = "done"
    /\ procs[2].pc = "done"
    /\ ~procs[2].isError ) =>
      getResource(Cur, Task, T1, TRUE).res = Null

(***************************************************************************)
(* Failed initialization                                                   *)
(***************************************************************************)
\* The operations that call initialize() on a store that is not initialized
Initializers == CrudOps \cup {"initialize"}

\* C38: when StorageFactory.createStorage raises during initialize(), the
\* error reaches the caller and the store is left as it was: not
\* initialized, with no provider retained and nothing written; and the
\* operation that follows a failed initialization attempts it again, so it
\* either leaves the store initialized or fails with an initialization error.
C38_FailedInitChangesNothing ==
  [][ /\ last'.err \in InitErrors =>
           /\ ~isInitialized
           /\ ~isInitialized'
           /\ storage' = storage
           /\ heap' = heap
           /\ nextId' = nextId
           /\ kv' = kv
      /\ (last.err \in InitErrors /\ last'.op \in Initializers) =>
           (isInitialized' \/ last'.err \in InitErrors)
    ]_vars

\* getResource failed to open Deno KV, was called again and failed to open
\* it again: the store is still not initialized and holds no provider
C38_Witness ==
  /\ last.op = "getResource"
  /\ last.rep
  /\ last.err = ErrOpenFailed
  /\ ~isInitialized
  /\ storage = 0
  /\ heap = EmptyObject


(***************************************************************************)
(* init() and close() calls on one DenoKvStore, interleaved at their       *)
(* awaits.  procs holds the position of every call, the handles Deno.openKv *)
(* has given out with the number of times each was closed, and this.kv.    *)
(***************************************************************************)
MaxCalls == 5

InitHandles ==
  /\ storageConfig = [type |-> "deno-kv", namespace |-> EmptyString, customProvider |-> 0]
  /\ isInitialized = FALSE
  /\ storage = KvStore
  /\ heap = (KvStore :> DenoKvStore(storageConfig))
  /\ nextId = 2
  /\ kv = EmptyObject
  /\ last = Null
  /\ NoResource
  /\ NoPair
  /\ procs = [pc |-> [p \in Procs |-> "idle"], handles |-> <<>>, kv |-> 0, calls |-> 0]

\* init() is called: returns when this.isOpen, else awaits Deno.openKv(path)
KvInit_call ==
  /\ procs.calls < MaxCalls
  /\ \E p \in Procs :
       /\ procs.pc[p] = "idle"
       /\ procs' = [procs EXCEPT !.calls = @ + 1,
                                 !.pc[p] = IF heap[KvStore].isOpen THEN "idle" ELSE "opening"]
  /\ UNCHANGED <<storeVars, resourceVars, pair>>

\* init() resumes with the handle Deno.openKv gave, or with its error
KvInit_resume ==
  /\ \E p \in Procs, openOk \in BOOLEAN :
       /\ procs.pc[p] = "opening"
       /\ IF openOk
          THEN /\ procs' = [procs EXCEPT !.pc[p] = "idle",
                                         !.handles = Append(@, 0),
                                         !.kv = Len(procs.handles) + 1]
               /\ heap' = DenoKvStore_init(Cur, KvStore, TRUE).st.heap
          ELSE /\ procs' = [procs EXCEPT !.pc[p] = "idle"]
               /\ heap' = heap
  /\ UNCHANGED <<storageConfig, isInitialized, storage, nextId, kv, last, resourceVars, pair>>

\* close() is called: when this.isOpen, this.kv.close() runs and is awaited
KvClose_call ==
  /\ procs.calls < MaxCalls
  /\ \E p \in Procs :
       /\ procs.pc[p] = "idle"
       /\ IF heap[KvStore].isOpen
          THEN procs' = [procs EXCEPT !.calls = @ + 1, !.pc[p] = "closing",
                                      !.handles[procs.kv] = @ + 1]
          ELSE procs' = [procs EXCEPT !.calls = @ + 1]
  /\ UNCHANGED <<storeVars, resourceVars, pair>>

\* close() resumes after kv.close(): this.isOpen = false
KvClose_resume ==
  /\ \E p \in Procs :
       /\ procs.pc[p] = "closing"
       /\ procs' = [procs EXCEPT !.pc[p] = "idle"]
       /\ heap' = DenoKvStore_close(Cur, KvStore).st.heap
  /\ UNCHANGED <<storageConfig, isInitialized, storage, nextId, kv, last, resourceVars, pair>>

NextHandles ==
  \/ KvInit_call
  \/ KvInit_resume
  \/ KvClose_call
  \/ KvClose_resume

SpecHandles == InitHandles /\ [][NextHandles]_vars

\* The handles that have not been closed
OpenHandles == { h \in 1..Len(procs.handles) : procs.handles[h] = 0 }

\* C39: under any interleaving of init() and close() calls on one
\* DenoKvStore, at most one handle is open at a time, every open handle is
\* the one the store holds in this.kv, and no handle is closed twice.
C39_HandleDiscipline ==
  /\ Cardinality(OpenHandles) <= 1
  /\ OpenHandles \subseteq {procs.kv}
  /\ \A h \in 1..Len(procs.handles) : procs.handles[h] <= 1

(***************************************************************************)
(* The Todo application                                                    *)
(***************************************************************************)
Completed == <<"c", "o", "m", "p", "l", "e", "t", "e", "d">>
T3 == <<"t", "3">>
T4 == <<"t", "4">>
TaskIds == {T1, T2, T3, T4}
Titles == {<<"a">>, <<"b">>}

\* The self, update, delete and toggle links of a task
TaskLinks(id) ==
  ("self" :> [href |-> <<"/tasks/">> \o id, method |-> "GET"])
  @@ ("update" :> [href |-> <<"/tasks/">> \o id, method |-> "PUT"])
  @@ ("delete" :> [href |-> <<"/tasks/">> \o id, method |-> "DELETE"])
  @@ ("toggle" :> [href |-> <<"/tasks/">> \o id \o <<"/toggle">>, method |-> "POST"])

\* createTask(id, title, completed) of the helpers
createTask(id, title, completed) ==
  Resource(Task, id, ("title" :> title) @@ ("completed" :> completed),
           TaskLinks(id), Active)

\* The task toggleTask writes back for the task it read
Toggled(task) ==
  LET isCompleted == task.properties["completed"]
  IN  [task EXCEPT !.properties = ObjSet(@, "completed", ~isCompleted),
                   !.state = IF ~isCompleted THEN Completed ELSE Active]

\* The completed property and the state of the stored task id, <<>> if none
TaskStatus(id) ==
  LET task == getResource(Cur, Task, id, TRUE).res
  IN  IF task = Null THEN <<>> ELSE <<task.properties["completed"], task.state>>

\* One call of the application: before is the status of the task when the
\* call started, twice whether it is a toggleTask that follows a toggleTask
\* of the same task, before2 the status when that earlier call started
TodoCall(op, id, out) ==
  [op |-> op, id |-> id, err |-> out.err, before |-> TaskStatus(id),
   twice |-> op = "toggleTask" /\ last.op = "toggleTask" /\ last.id = id
             /\ last.err = NoError /\ out.err = NoError,
   before2 |-> last.before]

\* new TodoApp()
InitTodo ==
  /\ storageConfig = [type |-> "memory", namespace |-> EmptyString, customProvider |-> 0]
  /\ isInitialized = FALSE
  /\ storage = 0
  /\ heap = EmptyObject
  /\ nextId = 1
  /\ kv = EmptyObject
  /\ last = [op |-> "new", id |-> EmptyString, err |-> NoError, before |-> <<>>,
             twice |-> FALSE, before2 |-> <<>>]
  /\ NoResource
  /\ NoPair
  /\ NoProcs

\* TodoApp.initialize: the three sample tasks
TodoInitialize ==
  /\ WithinBound
  /\ last.op = "new"
  /\ \E title \in Titles :
       \E out \in { createResource(
                      createResource(
                        createResource(Cur, createTask(T1, title, FALSE), TRUE).st,
                        createTask(T2, title, FALSE), TRUE).st,
                      createTask(T3, title, TRUE), TRUE) } :
         Commit(out, TodoCall("initialize", T3, out))

\* TodoApp.createTask(title); the id stands for `task-${Date.now()}`
TodoCreateTask ==
  /\ WithinBound
  /\ \E id \in {T4}, title \in Titles :
       \E out \in { createResource(Cur, createTask(id, title, FALSE), TRUE) } :
         Commit(out, TodoCall("createTask", id, out))

\* TodoApp.toggleTask(id)
TodoToggleTask ==
  /\ WithinBound
  /\ \E id \in TaskIds :
       \E got \in { getResource(Cur, Task, id, TRUE) } :
         \E out \in { IF got.err # NoError THEN got
                      ELSE IF got.res = Null THEN Throws(got.st, "Task not found")
                      ELSE updateResource(got.st, Toggled(got.res), TRUE) } :
           Commit(out, TodoCall("toggleTask", id, out))

\* TodoApp.deleteTask(id)
TodoDeleteTask ==
  /\ WithinBound
  /\ \E id \in TaskIds :
       \E out \in { deleteResource(Cur, Task, id, TRUE) } :
         Commit(out, TodoCall("deleteTask", id, out))

NextTodo ==
  \/ TodoInitialize
  \/ TodoCreateTask
  \/ TodoToggleTask
  \/ TodoDeleteTask

SpecTodo == InitTodo /\ [][NextTodo]_vars

\* C40: every stored task has state "completed" exactly when its completed
\* property is true and state "active" otherwise, whether it was produced by
\* createTask with completed false or true and after any toggleTask calls;
\* and toggleTask applied twice to a task restores its completed property
\* and its state.
C40_StateMatchesCompleted ==
  /\ \A id \in TaskIds :
       TaskStatus(id) \in {<<>>, <<TRUE, Completed>>, <<FALSE, Active>>}
  /\ last.twice => TaskStatus(last.id) = last.before2
====
